---- MODULE Spec2Model ----
(***************************************************************************)
(* A model of the geobbolt store (package geostore): PrepareIndexEntry,    *)
(* WriteBatch, Put and FindClosest over the two bbolt buckets "objects"    *)
(* and "index".                                                            *)
(*                                                                         *)
(* The s2 sphere is modelled by one line of lattice positions.  A cell of  *)
(* level l is a dyadic interval of that line, [lvl, idx]; the level-16     *)
(* cells are LeafWidth positions wide.  A polyline is the chain of         *)
(* segments between its vertices; a polygon loop is the interval spanned   *)
(* by its vertices and its edges are its boundary, the two end points, so  *)
(* that a position inside a polygon has a positive distance to the         *)
(* polygon's edges, as on the sphere.  Angles are counted in lattice       *)
(* positions, one radian being AngleUnitsPerRadian positions.                 *)
(* Byte strings (ids, terms, keys, blobs) are sequences of 0..255.         *)
(***************************************************************************)
EXTENDS Integers, Sequences, FiniteSets, TLC

(***************************************************************************)
(* Program constants                                                       *)
(***************************************************************************)
MinLevel == 4
MaxLevel == 16
MaxCells == 8
earthRadiusMeters == 6371000
Marker == 36
NUL == 0
typePointVector == 1
typePolyline == 2
typePolygon == 3
encodingVersion == 1

(***************************************************************************)
(* Bounds of the model                                                     *)
(***************************************************************************)
LeafWidth == 4
AngleUnitsPerRadian == 6371
MaxWrites == 2

(***************************************************************************)
(* Byte strings                                                            *)
(***************************************************************************)
Str_int == <<105, 110, 116, 58>>
Str_ext == <<101, 120, 116, 58>>
Str_1 == <<49>>

Min(S) == CHOOSE x \in S : \A y \in S : x <= y
Max(S) == CHOOSE x \in S : \A y \in S : x >= y
Range(s) == {s[i] : i \in 1..Len(s)}

HasPrefix(k, p) ==
    /\ Len(p) <= Len(k)
    /\ \A i \in 1..Len(p) : k[i] = p[i]

TrimPrefix(k, p) ==
    IF HasPrefix(k, p) THEN SubSeq(k, Len(p) + 1, Len(k)) ELSE k

\* bytes.Compare(a, b) < 0, the order bbolt keeps its keys in: the first
\* byte that differs decides, and a proper prefix comes first
RECURSIVE LessFrom(_, _, _)
LessFrom(a, b, i) ==
    IF i > Len(b) THEN FALSE
    ELSE IF i > Len(a) THEN TRUE
    ELSE IF a[i] # b[i] THEN a[i] < b[i]
    ELSE LessFrom(a, b, i + 1)

BytesLess(a, b) == LessFrom(a, b, 1)

(***************************************************************************)
(* Cells and tokens (s2.CellID)                                            *)
(***************************************************************************)
CellWidth(lvl) == LeafWidth * 2^(MaxLevel - lvl)
CellLo(c) == c.idx * CellWidth(c.lvl)
CellHi(c) == CellLo(c) + CellWidth(c.lvl) - 1
CellAt(lvl, x) == [lvl |-> lvl, idx |-> x \div CellWidth(lvl)]
CellParent(c, lvl) == [lvl |-> lvl, idx |-> c.idx \div 2^(c.lvl - lvl)]
CellContainsPoint(c, x) == CellLo(c) <= x /\ x <= CellHi(c)

\* the id has the path bits, then a 1, then zeros, as an s2 cell id has
TokenDigits == (MaxLevel + 4) \div 4
CellIDBits(c) ==
    (2 * c.idx + 1) * 2^(MaxLevel - c.lvl) * 2^(4 * TokenDigits - MaxLevel - 1)

HexDigit(n) == IF n < 10 THEN 48 + n ELSE 87 + n

\* CellID.ToToken: the hex digits of the id without its trailing zeros
ToToken(c) ==
    LET id == CellIDBits(c)
        nib == [i \in 1..TokenDigits |-> (id \div 16^(TokenDigits - i)) % 16]
        k == Max({i \in 1..TokenDigits : nib[i] # 0})
    IN  [i \in 1..k |-> HexDigit(nib[i])]

(***************************************************************************)
(* Geometries (geom.Geometry), by type and parts:                          *)
(*   Point            parts = << <<x>> >>, the empty point has no part     *)
(*   LineString       parts = << <<x1, ..., xn>> >>                        *)
(*   Polygon          parts = its rings, the exterior ring first           *)
(*   MultiPoint       parts = one <<x>> for each point                     *)
(*   MultiLineString  parts = one vertex chain for each line               *)
(*   MultiPolygon     parts = one sequence of rings for each polygon       *)
(*   GeometryCollection  parts = its child geometries                      *)
(***************************************************************************)
Geom(type, parts) == [type |-> type, parts |-> parts]
EmptyGeometry == Geom("GeometryCollection", <<>>)

RECURSIVE GeomIsEmpty(_)
GeomIsEmpty(g) ==
    CASE g.type \in {"Point", "LineString"} ->
            g.parts = <<>> \/ g.parts[1] = <<>>
      [] g.type = "Polygon" ->
            g.parts = <<>> \/ g.parts[1] = <<>>
      [] g.type \in {"MultiPoint", "MultiLineString"} ->
            \A i \in 1..Len(g.parts) : g.parts[i] = <<>>
      [] g.type = "MultiPolygon" ->
            \A i \in 1..Len(g.parts) :
                g.parts[i] = <<>> \/ g.parts[i][1] = <<>>
      [] OTHER ->
            \A i \in 1..Len(g.parts) : GeomIsEmpty(g.parts[i])

(***************************************************************************)
(* Shapes (s2.Shape) and regions (s2.Region)                               *)
(***************************************************************************)
PointVector(pts) == [kind |-> "PointVector", pts |-> pts, loops |-> <<>>]
Polyline(pts) == [kind |-> "Polyline", pts |-> pts, loops |-> <<>>]
Polygon(loops) == [kind |-> "Polygon", pts |-> <<>>, loops |-> loops]
PointRegion(pt) == [kind |-> "PointRegion", pts |-> <<pt>>, loops |-> <<>>]
Cap(center, radius) ==
    [kind |-> "Cap", pts |-> <<center>>, loops |-> <<>>, radius |-> radius]

RECURSIVE Flatten(_)
Flatten(ss) == IF ss = <<>> THEN <<>> ELSE Head(ss) \o Flatten(Tail(ss))

\* the vertices of a shape or region, in order
Vertices(s) == IF s.kind = "Polygon" THEN Flatten(s.loops) ELSE s.pts

LoopContains(loop, x) ==
    loop # <<>> /\ Min(Range(loop)) <= x /\ x <= Max(Range(loop))

\* s2.Polygon.ContainsPoint: inside an odd number of loops
PolygonContainsPoint(s, x) ==
    Cardinality({i \in 1..Len(s.loops) : LoopContains(s.loops[i], x)}) % 2 = 1

\* s2.Shape.NumEdges and Edge: a point is a degenerate edge, a polyline has
\* the segments between consecutive vertices, a loop has one boundary edge
\* for each of its vertices
Edges(s) ==
    CASE s.kind = "PointVector" ->
            [i \in 1..Len(s.pts) |-> <<s.pts[i], s.pts[i]>>]
      [] s.kind = "Polyline" ->
            IF Len(s.pts) = 0 THEN <<>>
            ELSE [i \in 1..(Len(s.pts) - 1) |-> <<s.pts[i], s.pts[i + 1]>>]
      [] OTHER ->
            LET vs == Flatten(s.loops)
            IN  [i \in 1..Len(vs) |-> <<vs[i], vs[i]>>]

\* s2.DistanceFromSegment
DistanceFromSegment(x, v0, v1) ==
    LET lo == IF v0 < v1 THEN v0 ELSE v1
        hi == IF v0 < v1 THEN v1 ELSE v0
    IN  IF x < lo THEN lo - x ELSE IF x > hi THEN x - hi ELSE 0

(***************************************************************************)
(* conversion.go                                                           *)
(***************************************************************************)
\* pt.XY() of an empty point is the zero XY
pointToS2(coords) == IF coords = <<>> THEN 0 ELSE coords[1]

lineStringToS2(coords) == Polyline(coords)

lineStringLoopToS2Loop(coords) ==
    LET n == Len(coords)
        m == IF n > 0 /\ coords[1] = coords[n] THEN n - 1 ELSE n
    IN  SubSeq(coords, 1, m)

\* the exterior ring of an empty polygon is the empty line string
ExteriorRing(rings) == IF rings = <<>> THEN <<>> ELSE rings[1]
InteriorRings(rings) == IF rings = <<>> THEN <<>> ELSE Tail(rings)

PolygonLoops(rings) ==
    <<lineStringLoopToS2Loop(ExteriorRing(rings))>>
    \o [i \in 1..Len(InteriorRings(rings)) |->
          lineStringLoopToS2Loop(InteriorRings(rings)[i])]

polygonToS2(rings) == Polygon(PolygonLoops(rings))

multiPolygonToS2(polys) ==
    Polygon(Flatten([i \in 1..Len(polys) |-> PolygonLoops(polys[i])]))

\* a faulty geomToS2: the points of a multipoint share one region, and
\* every other type is refused
geomToS2_oneRegion(g) ==
    IF g.type = "MultiPoint"
    THEN [shapes |-> <<PointVector([i \in 1..Len(g.parts) |-> pointToS2(g.parts[i])])>>,
          regions |-> <<PointRegion(pointToS2(g.parts[1]))>>, err |-> FALSE]
    ELSE [shapes |-> <<>>, regions |-> <<>>, err |-> TRUE]

geomToS2(g) ==
    CASE g.type = "Point" ->
            LET pt == pointToS2(g.parts[1])
            IN  [shapes |-> <<PointVector(<<pt>>)>>,
                 regions |-> <<PointRegion(pt)>>, err |-> FALSE]
      [] g.type = "LineString" ->
            LET ls == lineStringToS2(g.parts[1])
            IN  [shapes |-> <<ls>>, regions |-> <<ls>>, err |-> FALSE]
      [] g.type = "Polygon" ->
            LET poly == polygonToS2(g.parts)
            IN  [shapes |-> <<poly>>, regions |-> <<poly>>, err |-> FALSE]
      [] g.type = "MultiPoint" ->
            LET pts == [i \in 1..Len(g.parts) |-> pointToS2(g.parts[i])]
            IN  [shapes |-> <<PointVector(pts)>>,
                 regions |-> [i \in 1..Len(pts) |-> PointRegion(pts[i])],
                 err |-> FALSE]
      [] g.type = "MultiLineString" ->
            LET pls == [i \in 1..Len(g.parts) |-> lineStringToS2(g.parts[i])]
            IN  [shapes |-> pls, regions |-> pls, err |-> FALSE]
      [] g.type = "MultiPolygon" ->
            LET poly == multiPolygonToS2(g.parts)
            IN  [shapes |-> <<poly>>, regions |-> <<poly>>, err |-> FALSE]
      [] OTHER ->
            [shapes |-> <<>>, regions |-> <<>>, err |-> TRUE]

s2PointToGeom(pt) == Geom("Point", <<<<pt>>>>)
s2MultiPointToGeom(pv) ==
    Geom("MultiPoint", [i \in 1..Len(pv.pts) |-> <<pv.pts[i]>>])
s2PolylineToGeom(pl) == Geom("LineString", <<pl.pts>>)
s2PolygonToGeom(poly) ==
    Geom("Polygon",
         [i \in 1..Len(poly.loops) |->
            IF poly.loops[i] = <<>> THEN <<>>
            ELSE Append(poly.loops[i], poly.loops[i][1])])

shapeToGeom(s) ==
    CASE s.kind = "PointVector" ->
            IF Len(s.pts) = 1 THEN s2PointToGeom(s.pts[1])
            ELSE s2MultiPointToGeom(s)
      [] s.kind = "Polyline" -> s2PolylineToGeom(s)
      [] s.kind = "Polygon" -> s2PolygonToGeom(s)
      [] OTHER -> EmptyGeometry

shapesToGeom(shapes) ==
    IF Len(shapes) = 0 THEN EmptyGeometry
    ELSE IF Len(shapes) = 1 THEN shapeToGeom(shapes[1])
    ELSE LET gs == [i \in 1..Len(shapes) |-> shapeToGeom(shapes[i])]
             lines == SelectSeq(gs, LAMBDA g : g.type = "LineString")
         IN  IF Len(lines) > 0
             THEN Geom("MultiLineString",
                       [i \in 1..Len(lines) |-> lines[i].parts[1]])
             ELSE shapeToGeom(shapes[1])

(***************************************************************************)
(* Regions and their coverings (s2.Region, s2.RegionCoverer)               *)
(***************************************************************************)
RegionIsEmpty(r) ==
    CASE r.kind = "Cap" -> r.radius < 0
      [] OTHER -> Vertices(r) = <<>>

RegionLo(r) ==
    IF r.kind = "Cap" THEN Max({0, r.pts[1] - r.radius})
    ELSE Min(Range(Vertices(r)))
RegionHi(r) ==
    IF r.kind = "Cap" THEN r.pts[1] + r.radius
    ELSE Max(Range(Vertices(r)))

\* PointRegion.IntersectsCell is c.ContainsPoint(p); the library's regions
\* meet a cell that overlaps their extent
IntersectsCell(r, c) ==
    IF r.kind = "PointRegion" THEN CellContainsPoint(c, r.pts[1])
    ELSE ~RegionIsEmpty(r) /\ RegionLo(r) <= CellHi(c) /\ CellLo(c) <= RegionHi(r)

\* PointRegion.ContainsCell is false; a polyline has no interior; a polygon
\* contains a cell when it contains every position of the cell
ContainsCell(r, c) ==
    /\ r.kind = "Polygon"
    /\ \A x \in CellLo(c)..CellHi(c) : PolygonContainsPoint(r, x)

\* CellUnion.Normalize: two sibling cells become their parent
RECURSIVE Normalize(_)
Normalize(cells) ==
    LET pairs == {c \in cells :
                    /\ c.lvl > MinLevel
                    /\ c.idx % 2 = 0
                    /\ [lvl |-> c.lvl, idx |-> c.idx + 1] \in cells}
    IN  IF pairs = {} THEN cells
        ELSE LET c == CHOOSE c \in pairs : \A d \in pairs : c.lvl >= d.lvl
             IN  Normalize((cells \ {c, [lvl |-> c.lvl, idx |-> c.idx + 1]})
                           \cup {CellParent(c, c.lvl - 1)})

\* the number of cells of a level that the extent of a region meets
CellsAcross(r, lvl) ==
    (RegionHi(r) \div CellWidth(lvl)) - (RegionLo(r) \div CellWidth(lvl)) + 1

\* RegionCoverer.Covering: cells of the levels MinLevel..MaxLevel, at most
\* MaxCells of them when MinLevel allows it, whose union contains the region
Covering(r) ==
    IF RegionIsEmpty(r) THEN {}
    ELSE LET fits == {l \in MinLevel..MaxLevel : CellsAcross(r, l) <= MaxCells}
             lvl == IF fits = {} THEN MinLevel ELSE Max(fits)
             w == CellWidth(lvl)
         IN  Normalize({c \in {[lvl |-> lvl, idx |-> i] :
                                  i \in (RegionLo(r) \div w)..(RegionHi(r) \div w)} :
                          IntersectsCell(r, c)})

\* a faulty InteriorCovering: the cells that meet the region
InteriorCovering_asCovering(r) == Covering(r)

\* drops the smallest cells until at most n are left
RECURSIVE Largest(_, _)
Largest(cells, n) ==
    IF Cardinality(cells) <= n THEN cells
    ELSE LET c == CHOOSE c \in cells :
                    \A d \in cells : c.lvl > d.lvl \/ (c.lvl = d.lvl /\ c.idx >= d.idx)
         IN  Largest(cells \ {c}, n)

\* RegionCoverer.InteriorCovering: cells of the levels MinLevel..MaxLevel,
\* at most MaxCells of them, each contained in the region
InteriorCovering(r) ==
    IF RegionIsEmpty(r) \/ r.kind # "Polygon" THEN {}
    ELSE LET w == CellWidth(MaxLevel)
         IN  Largest(Normalize({c \in {[lvl |-> MaxLevel, idx |-> i] :
                                  i \in (RegionLo(r) \div w)..(RegionHi(r) \div w)} :
                                  ContainsCell(r, c)}),
                     MaxCells)

(***************************************************************************)
(* s2.RegionTermIndexer with the default options (marker "$", no           *)
(* optimisation for space) and the levels and cell count set by NewGeoStore*)
(***************************************************************************)
AncestorTerm(c) == ToToken(c)
CoveringTerm(c) == <<Marker>> \o ToToken(c)

GetIndexTermsForCanonicalCovering(covering) ==
    UNION {(IF c.lvl < MaxLevel THEN {CoveringTerm(c)} ELSE {})
           \cup {AncestorTerm(c)}
           \cup {AncestorTerm(CellParent(c, l)) : l \in MinLevel..(c.lvl - 1)} :
           c \in covering}

\* a faulty GetQueryTerms: the cells of the covering alone, without the
\* covering terms of their ancestors
GetQueryTerms_noAncestors(r) == {AncestorTerm(c) : c \in Covering(r)}

GetQueryTerms(r) ==
    UNION {{AncestorTerm(c)}
           \cup {CoveringTerm(CellParent(c, l)) : l \in MinLevel..(c.lvl - 1)} :
           c \in Covering(r)}

(***************************************************************************)
(* encoding/binary and bytes.Reader.  A reader is the data and an offset;  *)
(* a read past the end fails, a Seek past the end does not.                *)
(***************************************************************************)
MaxVarintLen64 == 10

\* the length from which make refuses to allocate (the runtime's maxAlloc),
\* scaled to the integers of the lattice: a varint of this value or more is
\* read as this value
MaxAlloc == 2097152

Saturate(x) == IF x > MaxAlloc THEN MaxAlloc ELSE x

\* a faulty PutUvarint: the low byte alone, whatever the value
PutUvarint_oneByte(x) == <<x % 256>>

RECURSIVE PutUvarint(_)
PutUvarint(x) ==
    IF x < 128 THEN <<x>> ELSE <<(x % 128) + 128>> \o PutUvarint(x \div 128)

RECURSIVE ReadUvarintFrom(_, _, _, _, _)
ReadUvarintFrom(data, pos, i, acc, mult) ==
    IF i >= MaxVarintLen64 \/ pos >= Len(data)
    THEN [err |-> TRUE, val |-> 0, pos |-> pos]
    ELSE LET b == data[pos + 1]
         IN  IF b < 128
             THEN IF i = MaxVarintLen64 - 1 /\ b > 1
                  THEN [err |-> TRUE, val |-> 0, pos |-> pos + 1]
                  ELSE [err |-> FALSE, val |-> Saturate(acc + b * mult), pos |-> pos + 1]
             ELSE ReadUvarintFrom(data, pos + 1, i + 1,
                                  Saturate(acc + (b - 128) * mult),
                                  IF mult * 128 > MaxAlloc THEN MaxAlloc ELSE mult * 128)

ReadUvarint(data, pos) == ReadUvarintFrom(data, pos, 0, 0, 1)

\* the n bytes at offset pos, or fewer at the end of the data
BytesAt(data, pos, n) ==
    IF pos >= Len(data) THEN <<>>
    ELSE SubSeq(data, pos + 1, IF pos + n > Len(data) THEN Len(data) ELSE pos + n)

(***************************************************************************)
(* The s2 encodings of points, polylines, polygons and of the shape index, *)
(* each one a version byte and big-endian fields                           *)
(***************************************************************************)
CoordBytes(x) == <<x \div 65536, (x \div 256) % 256, x % 256>>
CoordFrom(b) == b[1] * 65536 + b[2] * 256 + b[3]

RECURSIVE EncodeCoords(_)
EncodeCoords(pts) ==
    IF pts = <<>> THEN <<>> ELSE CoordBytes(Head(pts)) \o EncodeCoords(Tail(pts))

\* n coordinates from the front of b; err when b is too short
RECURSIVE DecodeCoords(_, _)
DecodeCoords(b, n) ==
    IF n = 0 THEN [err |-> FALSE, pts |-> <<>>, rest |-> b]
    ELSE IF Len(b) < 3 THEN [err |-> TRUE, pts |-> <<>>, rest |-> b]
    ELSE LET t == DecodeCoords(SubSeq(b, 4, Len(b)), n - 1)
         IN  [err |-> t.err, pts |-> <<CoordFrom(b)>> \o t.pts, rest |-> t.rest]

\* s2.Point.Encode and Decode
PointEncode(pt) == <<encodingVersion>> \o CoordBytes(pt)

RECURSIVE DecodePoints(_, _)
DecodePoints(b, n) ==
    IF n = 0 THEN [err |-> FALSE, pts |-> <<>>]
    ELSE IF Len(b) < 4 \/ b[1] # encodingVersion THEN [err |-> TRUE, pts |-> <<>>]
    ELSE LET t == DecodePoints(SubSeq(b, 5, Len(b)), n - 1)
         IN  [err |-> t.err, pts |-> <<CoordFrom(SubSeq(b, 2, 4))>> \o t.pts]

\* s2.Polyline.Encode and Decode
PolylineEncode(s) == <<encodingVersion, Len(s.pts)>> \o EncodeCoords(s.pts)

PolylineDecode(b) ==
    IF Len(b) < 2 \/ b[1] # encodingVersion THEN [err |-> TRUE, shape |-> Polyline(<<>>)]
    ELSE LET t == DecodeCoords(SubSeq(b, 3, Len(b)), b[2])
         IN  [err |-> t.err, shape |-> Polyline(t.pts)]

\* s2.Polygon.Encode and Decode
RECURSIVE EncodeLoops(_)
EncodeLoops(loops) ==
    IF loops = <<>> THEN <<>>
    ELSE <<Len(Head(loops))>> \o EncodeCoords(Head(loops)) \o EncodeLoops(Tail(loops))

PolygonEncode(s) == <<encodingVersion, Len(s.loops)>> \o EncodeLoops(s.loops)

RECURSIVE DecodeLoops(_, _)
DecodeLoops(b, n) ==
    IF n = 0 THEN [err |-> FALSE, loops |-> <<>>]
    ELSE IF Len(b) < 1 THEN [err |-> TRUE, loops |-> <<>>]
    ELSE LET l == DecodeCoords(Tail(b), b[1])
             t == DecodeLoops(l.rest, n - 1)
         IN  IF l.err THEN [err |-> TRUE, loops |-> <<>>]
             ELSE [err |-> t.err, loops |-> <<l.pts>> \o t.loops]

PolygonDecode(b) ==
    IF Len(b) < 2 \/ b[1] # encodingVersion THEN [err |-> TRUE, shape |-> Polygon(<<>>)]
    ELSE LET t == DecodeLoops(SubSeq(b, 3, Len(b)), b[2])
         IN  [err |-> t.err, shape |-> Polygon(t.loops)]

\* s2.ShapeIndex after Add and Build: the cells that hold the edges of the
\* shapes, each with the number of shapes clipped to it.  The shapes of one
\* feature are few, so the index is the smallest cell that holds them all.
IndexBuild(shapes) ==
    LET with == {i \in 1..Len(shapes) : Edges(shapes[i]) # <<>>}
        ends == UNION {Range(Vertices(shapes[i])) : i \in with}
    IN  IF with = {} THEN <<>>
        ELSE LET lvl == Max({l \in 0..MaxLevel :
                               Min(ends) \div CellWidth(l) = Max(ends) \div CellWidth(l)})
             IN  <<[cell |-> CellAt(lvl, Min(ends)), numClipped |-> Cardinality(with)]>>

\* s2.ShapeIndex.Encode
RECURSIVE EncodeIndexCells(_)
EncodeIndexCells(cells) ==
    IF cells = <<>> THEN <<>>
    ELSE LET c == Head(cells)
         IN  <<c.cell.lvl, c.cell.idx \div 256, c.cell.idx % 256, c.numClipped>>
             \o EncodeIndexCells(Tail(cells))

IndexEncode(cells) == <<encodingVersion, Len(cells)>> \o EncodeIndexCells(cells)

\* s2.EncodedS2ShapeIndex.Init
RECURSIVE DecodeIndexCells(_, _)
DecodeIndexCells(b, n) ==
    IF n = 0 THEN [err |-> FALSE, cells |-> <<>>]
    ELSE IF Len(b) < 4 \/ b[1] > MaxLevel THEN [err |-> TRUE, cells |-> <<>>]
    ELSE LET t == DecodeIndexCells(SubSeq(b, 5, Len(b)), n - 1)
         IN  [err |-> t.err,
              cells |-> <<[cell |-> [lvl |-> b[1], idx |-> b[2] * 256 + b[3]],
                           numClipped |-> b[4]]>> \o t.cells]

IndexInit(b) ==
    IF Len(b) < 2 \/ b[1] # encodingVersion THEN [err |-> TRUE, cells |-> <<>>]
    ELSE DecodeIndexCells(SubSeq(b, 3, Len(b)), b[2])

(***************************************************************************)
(* The blob codec: encodeFullEntry, decodeFullEntry, LazyShapeFactory      *)
(***************************************************************************)
ShapeTypeByte(s) ==
    CASE s.kind = "PointVector" -> typePointVector
      [] s.kind = "Polyline" -> typePolyline
      [] s.kind = "Polygon" -> typePolygon

RECURSIVE EncodePointVector(_)
EncodePointVector(pts) ==
    IF pts = <<>> THEN <<>> ELSE PointEncode(Head(pts)) \o EncodePointVector(Tail(pts))

ShapeBody(s) ==
    CASE s.kind = "PointVector" -> PutUvarint(Len(s.pts)) \o EncodePointVector(s.pts)
      [] s.kind = "Polyline" -> PolylineEncode(s)
      [] s.kind = "Polygon" -> PolygonEncode(s)

RECURSIVE EncodeShapes(_)
EncodeShapes(shapes) ==
    IF shapes = <<>> THEN <<>>
    ELSE LET body == ShapeBody(Head(shapes))
         IN  <<ShapeTypeByte(Head(shapes))>> \o PutUvarint(Len(body)) \o body
             \o EncodeShapes(Tail(shapes))

encodeFullEntry(shapes, props) ==
    IF \E i \in 1..Len(shapes) : shapes[i].kind \notin {"PointVector", "Polyline", "Polygon"}
    THEN [err |-> TRUE, blob |-> <<>>]
    ELSE [err |-> FALSE,
          blob |-> PutUvarint(Len(props)) \o props
                   \o PutUvarint(Len(shapes)) \o EncodeShapes(shapes)
                   \o IndexEncode(IndexBuild(shapes))]

\* the shape table scan of decodeFullEntry: n entries from offset pos; a
\* length of MaxAlloc or more is one Seek refuses as a negative position or
\* one that leaves the reader past the end for the read that follows
RECURSIVE ScanShapeTable(_, _, _)
ScanShapeTable(data, pos, n) ==
    IF n = 0 THEN [err |-> FALSE, infos |-> <<>>, pos |-> pos]
    ELSE IF pos >= Len(data) THEN [err |-> TRUE, infos |-> <<>>, pos |-> pos]
    ELSE LET typ == data[pos + 1]
             len == ReadUvarint(data, pos + 1)
         IN  IF len.err \/ len.val >= MaxAlloc
             THEN [err |-> TRUE, infos |-> <<>>, pos |-> pos]
             ELSE LET t == ScanShapeTable(data, len.pos + len.val, n - 1)
                  IN  [err |-> t.err,
                       infos |-> <<[offset |-> len.pos, length |-> len.val,
                                    typ |-> typ]>> \o t.infos,
                       pos |-> t.pos]

DecodeFail == [err |-> TRUE, panic |-> FALSE, props |-> <<>>, index |-> <<>>,
               factory |-> [data |-> <<>>, shapes |-> <<>>]]

\* make([]byte, propLen) or make([]shapeInfo, shapeCount) of a length the
\* runtime refuses: a panic, no error is returned
DecodePanic == [DecodeFail EXCEPT !.err = FALSE, !.panic = TRUE]

\* decodeFullEntry after the index was read: the entry, or the error
decodeIndex(data, props, infos, index) ==
    IF index.err THEN DecodeFail
    ELSE [err |-> FALSE, panic |-> FALSE, props |-> props, index |-> index.cells,
          factory |-> [data |-> data, shapes |-> infos]]

\* decodeFullEntry after the shape table was scanned
decodeTable(data, props, tab) ==
    IF tab.err THEN DecodeFail
    ELSE decodeIndex(data, props, tab.infos,
                     IndexInit(BytesAt(data, tab.pos, Len(data))))

\* decodeFullEntry after the shape count was read
decodeShapes(data, props, shapeCount) ==
    IF shapeCount.err THEN DecodeFail
    ELSE IF shapeCount.val >= MaxAlloc THEN DecodePanic
    ELSE decodeTable(data, props,
                     ScanShapeTable(data, shapeCount.pos, shapeCount.val))

\* decodeFullEntry after the length of the properties was read
decodeProps(data, propLen) ==
    IF propLen.err THEN DecodeFail
    ELSE IF propLen.val >= MaxAlloc THEN DecodePanic
    ELSE IF propLen.pos + propLen.val > Len(data) THEN DecodeFail
    ELSE decodeShapes(data, BytesAt(data, propLen.pos, propLen.val),
                      ReadUvarint(data, propLen.pos + propLen.val))

decodeFullEntry(data) == decodeProps(data, ReadUvarint(data, 0))

NilShape == [kind |-> "nil", pts |-> <<>>, loops |-> <<>>]

\* make([]s2.Point, count) of a count the runtime refuses: GetShape panics
PanicShape == [kind |-> "panic", pts |-> <<>>, loops |-> <<>>]

\* a decoder's error leaves the shape nil
ShapeOrNil(t) == IF t.err THEN NilShape ELSE t.shape

PointsOrNil(t) == IF t.err THEN NilShape ELSE PointVector(t.pts)

\* the point vector branch of GetShape: the count, then the points
GetPointVector(data, count) ==
    IF count.err THEN NilShape
    ELSE IF count.val >= MaxAlloc THEN PanicShape
    ELSE PointsOrNil(DecodePoints(BytesAt(data, count.pos, Len(data)), count.val))

\* the switch of GetShape: a point vector is read from the reader itself,
\* a polyline or polygon from a reader limited to the recorded length
GetShapeAt(data, info) ==
    CASE info.typ = typePointVector ->
            GetPointVector(data, ReadUvarint(data, info.offset))
      [] info.typ = typePolyline ->
            ShapeOrNil(PolylineDecode(BytesAt(data, info.offset, info.length)))
      [] info.typ = typePolygon ->
            ShapeOrNil(PolygonDecode(BytesAt(data, info.offset, info.length)))
      [] OTHER -> NilShape

\* LazyShapeFactory.GetShape
GetShape(f, id) ==
    IF id < 0 \/ id >= Len(f.shapes) THEN NilShape
    ELSE GetShapeAt(f.data, f.shapes[id + 1])

FactoryLen(f) == Len(f.shapes)

(***************************************************************************)
(* bbolt: a bucket is its key/value pairs in the order of the keys         *)
(***************************************************************************)
BucketKeys(b) == {b[i].k : i \in 1..Len(b)}

\* Bucket.Get
BucketGetAt(b, key, i) ==
    IF i <= Len(b) /\ b[i].k = key THEN [found |-> TRUE, v |-> b[i].v]
    ELSE [found |-> FALSE, v |-> <<>>]

\* the search of a sorted page (sort.Search): the first position in lo..hi
\* whose key is >= seek, hi when there is none
RECURSIVE SearchKeys(_, _, _, _)
SearchKeys(b, seek, lo, hi) ==
    IF lo >= hi THEN lo
    ELSE LET mid == (lo + hi) \div 2
         IN  IF BytesLess(b[mid].k, seek) THEN SearchKeys(b, seek, mid + 1, hi)
             ELSE SearchKeys(b, seek, lo, mid)

\* Cursor.Seek: the position of the first key >= seek, Len(b) + 1 at the end
CursorSeek(b, seek) == SearchKeys(b, seek, 1, Len(b) + 1)

\* a faulty BucketPut: the empty key is stored like any other
BucketPut_anyKey(b, key, value) ==
    [err |-> FALSE,
     b |-> SubSeq(b, 1, CursorSeek(b, key) - 1) \o <<[k |-> key, v |-> value]>>
           \o SelectSeq(SubSeq(b, CursorSeek(b, key), Len(b)),
                        LAMBDA kv : kv.k # key)]

\* a faulty BucketPut: the value of a key the bucket holds is not replaced
BucketPut_noReplace(b, key, value) ==
    IF key = <<>> THEN [err |-> TRUE, b |-> b]
    ELSE IF key \in BucketKeys(b) THEN [err |-> FALSE, b |-> b]
    ELSE [err |-> FALSE,
          b |-> SubSeq(b, 1, CursorSeek(b, key) - 1) \o <<[k |-> key, v |-> value]>>
                \o SubSeq(b, CursorSeek(b, key), Len(b))]

\* Bucket.Put: ErrKeyRequired for the empty key, else insert or replace
BucketPut(b, key, value) ==
    IF key = <<>> THEN [err |-> TRUE, b |-> b]
    ELSE LET i == CursorSeek(b, key)
             j == IF i <= Len(b) /\ b[i].k = key THEN i + 1 ELSE i
         IN  [err |-> FALSE,
              b |-> SubSeq(b, 1, i - 1) \o <<[k |-> key, v |-> value]>>
                    \o SubSeq(b, j, Len(b))]

BucketGet(b, key) == BucketGetAt(b, key, CursorSeek(b, key))

\* the keys a cursor yields from Seek(prefix) while they have the prefix
RECURSIVE ScanFrom(_, _, _)
ScanFrom(b, i, prefix) ==
    IF i > Len(b) \/ ~HasPrefix(b[i].k, prefix) THEN <<>>
    ELSE <<b[i].k>> \o ScanFrom(b, i + 1, prefix)

PrefixScan(b, prefix) == ScanFrom(b, CursorSeek(b, prefix), prefix)

(***************************************************************************)
(* encoding/json for the properties of a feature: a nil map is null, a map *)
(* is its members between braces                                           *)
(***************************************************************************)
Str_null == <<110, 117, 108, 108>>
NilProps == [nil |-> TRUE, body |-> <<>>]
jsonMarshal(p) == IF p.nil THEN Str_null ELSE <<123>> \o p.body \o <<125>>
jsonUnmarshal(b) ==
    IF Len(b) >= 2 /\ b[1] = 123 /\ b[Len(b)] = 125
    THEN [nil |-> FALSE, body |-> SubSeq(b, 2, Len(b) - 1)]
    ELSE NilProps

(***************************************************************************)
(* geostore: PrepareIndexEntry, WriteBatch, Put                            *)
(***************************************************************************)
NoEntry == [ID |-> <<>>, Blob |-> <<>>, InteriorTerms |-> {}, ExteriorTerms |-> {}]

PrepareFail == [err |-> TRUE, entry |-> NoEntry]

\* PrepareIndexEntry after the blob was encoded
PrepareEntry(id, regions, enc) ==
    IF enc.err THEN PrepareFail
    ELSE [err |-> FALSE,
          entry |->
            [ID |-> id,
             Blob |-> enc.blob,
             InteriorTerms |->
               UNION {GetIndexTermsForCanonicalCovering(InteriorCovering(regions[i])) :
                      i \in 1..Len(regions)},
             ExteriorTerms |->
               UNION {GetIndexTermsForCanonicalCovering(Covering(regions[i])) :
                      i \in 1..Len(regions)}]]

\* PrepareIndexEntry after the geometry was converted
PrepareShapes(id, feature, conv) ==
    IF conv.err THEN PrepareFail
    ELSE PrepareEntry(id, conv.regions,
                      encodeFullEntry(conv.shapes, jsonMarshal(feature.Properties)))

PrepareIndexEntry(id, feature) ==
    IF GeomIsEmpty(feature.Geometry) THEN PrepareFail
    ELSE PrepareShapes(id, feature, geomToS2(feature.Geometry))

\* a faulty IndexKey: no 0x00 between the term and the id
IndexKey_noSeparator(kind, term, id) == kind \o term \o id

IndexKey(kind, term, id) == kind \o term \o <<NUL>> \o id

\* bIdx.Put of one key for each term of a set, in any order
RECURSIVE PutTerms(_, _, _, _)
PutTerms(bIdx, kind, terms, id) ==
    IF terms = {} THEN [err |-> FALSE, b |-> bIdx]
    ELSE LET t == CHOOSE t \in terms : TRUE
             put == BucketPut(bIdx, IndexKey(kind, t, id), Str_1)
         IN  IF put.err THEN [err |-> TRUE, b |-> put.b]
             ELSE PutTerms(put.b, kind, terms \ {t}, id)

\* the loop of WriteBatch over the exterior terms of an entry
PutExterior(bObj, ext) == [err |-> ext.err, objects |-> bObj, index |-> ext.b]

\* the loop of WriteBatch over the interior terms of an entry, then the
\* exterior terms
PutInterior(entry, bObj, int) ==
    IF int.err THEN [err |-> TRUE, objects |-> bObj, index |-> int.b]
    ELSE PutExterior(bObj, PutTerms(int.b, Str_ext, entry.ExteriorTerms, entry.ID))

\* bObj.Put of the blob of an entry, then its terms
PutBlob(entry, bIdx, obj) ==
    IF obj.err THEN [err |-> TRUE, objects |-> obj.b, index |-> bIdx]
    ELSE PutInterior(entry, obj.b,
                     PutTerms(bIdx, Str_int, entry.InteriorTerms, entry.ID))

\* a faulty WriteEntry: the terms are put and the blob is not
WriteEntry_noBlob(tx, entry) ==
    PutBlob(entry, tx.index, [err |-> entry.ID = <<>>, b |-> tx.objects])

\* a faulty WriteEntry: the blob is put and the terms are not
WriteEntry_blobOnly(tx, entry) ==
    [err |-> entry.ID = <<>>,
     objects |-> IF entry.ID = <<>> THEN tx.objects
                 ELSE BucketPut(tx.objects, entry.ID, entry.Blob).b,
     index |-> tx.index]

\* the body of the loop of WriteBatch for one entry, inside the transaction
WriteEntry(tx, entry) ==
    PutBlob(entry, tx.index, BucketPut(tx.objects, entry.ID, entry.Blob))

RECURSIVE WriteEntries(_, _)
\* the loop of WriteBatch stops at the first error
WriteNext(w, rest) == IF w.err THEN w ELSE WriteEntries(w, rest)

WriteEntries(tx, entries) ==
    IF entries = <<>> THEN [err |-> FALSE, objects |-> tx.objects, index |-> tx.index]
    ELSE WriteNext(WriteEntry(tx, Head(entries)), Tail(entries))

\* a faulty dbUpdate: what was written before the error is kept
dbUpdate_keep(db, w) == w

\* db.Update commits what the function wrote when it returns nil and rolls
\* the transaction back when it returns an error
dbUpdate(db, w) ==
    IF w.err THEN [err |-> TRUE, objects |-> db.objects, index |-> db.index]
    ELSE w

WriteBatch(db, entries) == dbUpdate(db, WriteEntries(db, entries))

\* Put after PrepareIndexEntry: WriteBatch of the one entry
PutPrepared(db, prep) ==
    IF prep.err THEN [err |-> TRUE, objects |-> db.objects, index |-> db.index]
    ELSE WriteBatch(db, <<prep.entry>>)

\* a faulty Put: the error of PrepareIndexEntry or WriteBatch is dropped
Put_noError(db, id, geoJSON) ==
    [PutPrepared(db, PrepareIndexEntry(id, geoJSON.feature)) EXCEPT !.err = FALSE]

\* Put: json.Unmarshal, PrepareIndexEntry, WriteBatch of the one entry
Put(db, id, geoJSON) ==
    IF ~geoJSON.valid THEN [err |-> TRUE, objects |-> db.objects, index |-> db.index]
    ELSE PutPrepared(db, PrepareIndexEntry(id, geoJSON.feature))

(***************************************************************************)
(* geostore: FindClosest, processCandidate, calculateMinDistance           *)
(***************************************************************************)
\* a faulty AngleFromMeters: the radius in metres taken for the angle
AngleFromMeters_raw(radiusMeters) == radiusMeters

\* s1.Angle(radiusMeters / earthRadiusMeters), in lattice positions: the
\* distances of the lattice are whole, so the quotient is rounded down
AngleFromMeters(radiusMeters) ==
    (radiusMeters * AngleUnitsPerRadian) \div earthRadiusMeters

\* float64(minDistAngle) * 6371000.0
MetersFromAngle(angle) == (angle * earthRadiusMeters) \div AngleUnitsPerRadian

\* s1.InfAngle: larger than every distance of the lattice
InfAngle == 2 * CellWidth(0)

\* s2.Cell.Distance
CellDistance(c, x) == DistanceFromSegment(x, CellLo(c), CellHi(c))

\* the edges of all the shapes, in the order calculateMinDistance visits them
RECURSIVE AllEdges(_)
AllEdges(shapes) ==
    IF shapes = <<>> THEN <<>> ELSE Edges(Head(shapes)) \o AllEdges(Tail(shapes))

calculateMinDistance(center, shapes) ==
    LET es == AllEdges(shapes)
    IN  Min({InfAngle} \cup
            {DistanceFromSegment(center, es[i][1], es[i][2]) : i \in 1..Len(es)})

NoItem == [ID |-> <<>>, Geometry |-> EmptyGeometry, Properties |-> NilProps,
           Distance |-> 0]

CandidateNone == [err |-> FALSE, found |-> FALSE, panic |-> FALSE, item |-> NoItem]
CandidateErr == [CandidateNone EXCEPT !.err = TRUE]
CandidatePanic == [CandidateNone EXCEPT !.panic = TRUE]

\* a faulty processDistance: the geometry is rebuilt whatever withGeometry is
processDistance_alwaysGeometry(id, angleRadius, withGeometry, props, shapes, d) ==
    IF d <= angleRadius
    THEN [CandidateNone EXCEPT
            !.found = TRUE,
            !.item = [ID |-> id,
                      Geometry |-> shapesToGeom(shapes),
                      Properties |-> jsonUnmarshal(props),
                      Distance |-> MetersFromAngle(d)]]
    ELSE CandidateNone

\* processCandidate, the check of the distance against the radius
processDistance(id, angleRadius, withGeometry, props, shapes, minDistAngle) ==
    IF minDistAngle <= angleRadius
    THEN [CandidateNone EXCEPT
            !.found = TRUE,
            !.item = [ID |-> id,
                      Geometry |-> IF withGeometry THEN shapesToGeom(shapes)
                                   ELSE EmptyGeometry,
                      Properties |-> jsonUnmarshal(props),
                      Distance |-> MetersFromAngle(minDistAngle)]]
    ELSE CandidateNone

\* processCandidate, the distance: 0 for an interior match whose first shape
\* is a polygon that contains the center, else the distance to the edges;
\* a shape the factory could not decode (nil) asked for its edges panics
processShapes(id, center, angleRadius, withGeometry, props, shapes, inside) ==
    IF \/ \E i \in 1..Len(shapes) : shapes[i] = PanicShape
       \/ ~inside /\ \E i \in 1..Len(shapes) : shapes[i] = NilShape
    THEN CandidatePanic
    ELSE processDistance(id, angleRadius, withGeometry, props, shapes,
                         IF inside THEN 0 ELSE calculateMinDistance(center, shapes))

\* the interior match optimisation of processCandidate
InsideFirstPolygon(shapes, center, isInteriorMatch) ==
    /\ isInteriorMatch
    /\ Len(shapes) > 0
    /\ shapes[1].kind = "Polygon"
    /\ PolygonContainsPoint(shapes[1], center)

\* the query of the decoded shape index by processCandidate
IndexMatches(cells, center, angleRadius) ==
    \E i \in 1..Len(cells) :
        /\ CellDistance(cells[i].cell, center) <= angleRadius
        /\ cells[i].numClipped > 0

AllShapes(f) == [i \in 1..FactoryLen(f) |-> GetShape(f, i - 1)]

\* processCandidate after the blob was decoded
processEntry(id, center, angleRadius, withGeometry, isInteriorMatch, dec) ==
    IF dec.err THEN CandidateErr
    ELSE IF dec.panic THEN CandidatePanic
    ELSE IF ~IndexMatches(dec.index, center, angleRadius) THEN CandidateNone
    ELSE processShapes(id, center, angleRadius, withGeometry, dec.props,
                       AllShapes(dec.factory),
                       InsideFirstPolygon(AllShapes(dec.factory), center,
                                          isInteriorMatch))

\* processCandidate after bObj.Get
processData(id, center, angleRadius, withGeometry, isInteriorMatch, data) ==
    IF ~data.found THEN CandidateErr
    ELSE processEntry(id, center, angleRadius, withGeometry, isInteriorMatch,
                      decodeFullEntry(data.v))

\* processCandidate: err when the blob is missing or cannot be decoded,
\* found when the candidate is within the radius
processCandidate(id, center, angleRadius, withGeometry, bObj, isInteriorMatch) ==
    processData(id, center, angleRadius, withGeometry, isInteriorMatch,
                BucketGet(bObj, id))

\* a faulty ScanIds: the scan prefix ends with the term, without the NUL
ScanIds_noSeparator(bIdx, kind, term) ==
    {TrimPrefix(k, kind \o term \o <<NUL>>) :
       k \in Range(PrefixScan(bIdx, kind \o term))}

\* the ids a cursor scan of the index yields for one kind and one term
ScanIds(bIdx, kind, term) ==
    LET prefix == kind \o term \o <<NUL>>
        keys == PrefixScan(bIdx, prefix)
    IN  {TrimPrefix(keys[i], prefix) : i \in 1..Len(keys)}

\* a faulty GatherCandidates: the exterior pass does not skip the ids the
\* interior pass found
GatherCandidates_overlap(bIdx, center, angleRadius) ==
    [interior |-> UNION {ScanIds(bIdx, Str_int, t) :
                         t \in GetQueryTerms(Cap(center, angleRadius))},
     exterior |-> UNION {ScanIds(bIdx, Str_ext, t) :
                         t \in GetQueryTerms(Cap(center, angleRadius))}]

\* the first read transaction of FindClosest: the two candidate sets
GatherCandidates(bIdx, center, angleRadius) ==
    LET queryTerms == GetQueryTerms(Cap(center, angleRadius))
        interior == UNION {ScanIds(bIdx, Str_int, t) : t \in queryTerms}
        exterior == UNION {ScanIds(bIdx, Str_ext, t) : t \in queryTerms}
    IN  [interior |-> interior, exterior |-> exterior \ interior]

\* the sequences that list the elements of a set once each: the orders in
\* which a range over a Go map may visit its keys
Orders(S) ==
    {f \in [1..Cardinality(S) -> S] : \A i, j \in 1..Cardinality(S) : f[i] = f[j] => i = j}

\* the append of FindClosest for a candidate that was found
AppendFound(r, t) ==
    [panic |-> r.panic \/ t.panic,
     items |-> IF r.found /\ ~r.err THEN <<r.item>> \o t.items ELSE t.items]

\* one loop of the second read transaction: the items appended for the
\* candidates visited in the order ids
RECURSIVE RefineInOrder(_, _, _, _, _, _)
RefineInOrder(ids, center, angleRadius, withGeometry, bObj, isInteriorMatch) ==
    IF ids = <<>> THEN [panic |-> FALSE, items |-> <<>>]
    ELSE AppendFound(processCandidate(Head(ids), center, angleRadius, withGeometry,
                                      bObj, isInteriorMatch),
                     RefineInOrder(Tail(ids), center, angleRadius, withGeometry,
                                   bObj, isInteriorMatch))

\* the second read transaction: interior candidates first, then exterior
RefineCandidates(bObj, cands, center, angleRadius, withGeometry) ==
    {[panic |-> a.panic \/ b.panic, items |-> a.items \o b.items] :
        a \in {RefineInOrder(o, center, angleRadius, withGeometry, bObj, TRUE) :
                 o \in Orders(cands.interior)},
        b \in {RefineInOrder(o, center, angleRadius, withGeometry, bObj, FALSE) :
                 o \in Orders(cands.exterior)}}

\* a faulty SortSlice: the items left in the order they were appended
SortSlice_unsorted(items) == {items}

\* sort.Slice by Distance: some permutation that is in ascending order
SortSlice(items) ==
    {s \in {[i \in 1..Len(items) |-> items[p[i]]] : p \in Permutations(1..Len(items))} :
        \A i \in 1..(Len(s) - 1) : ~(s[i + 1].Distance < s[i].Distance)}

\* what FindClosest returns for the candidates of its first transaction and
\* the objects bucket of its second
FindClosestOn(bObj, cands, center, radiusMeters, withGeometry) ==
    UNION {IF r.panic THEN {[panic |-> TRUE, results |-> <<>>]}
           ELSE {[panic |-> FALSE, results |-> s] : s \in SortSlice(r.items)} :
           r \in RefineCandidates(bObj, cands, center,
                                  AngleFromMeters(radiusMeters), withGeometry)}

FindClosest(db, center, radiusMeters, withGeometry) ==
    FindClosestOn(db.objects,
                  GatherCandidates(db.index, center, AngleFromMeters(radiusMeters)),
                  center, radiusMeters, withGeometry)

(***************************************************************************)
(* The store and its callers                                               *)
(***************************************************************************)
VARIABLES
    objects,    \* the objects bucket: id -> blob
    index,      \* the index bucket: kind + term + NUL + id -> "1"
    current,    \* history: the geometry last committed under each id
    nWrites,    \* the number of Put and WriteBatch calls made
    lastOp,     \* the last call that returned, its arguments and its result
    pending,    \* a FindClosest call between its two read transactions
    ingest      \* the goroutines and channels of the parallel ingest tool

vars == <<objects, index, current, nWrites, lastOp, pending, ingest>>

db == [objects |-> objects, index |-> index]

Id_a == <<97>>
Id_b == <<98>>
Ids == {Id_a, Id_b}

Props_t == [nil |-> FALSE, body |-> <<34, 116, 34, 58, 49>>]

PointG(x) == Geom("Point", <<<<x>>>>)
RingG(a, b) == Geom("Polygon", <<<<a, b, a>>>>)

\* the features a caller stores: a point, a point far from it, a polygon of
\* several leaf cells, a polygon that holds no leaf cell, a line
NearPoint == [Geometry |-> PointG(2 * LeafWidth + 2), Properties |-> Props_t]
FarPoint == [Geometry |-> PointG(6 * LeafWidth), Properties |-> NilProps]
BigPolygon == [Geometry |-> RingG(0, 8 * LeafWidth - 1), Properties |-> NilProps]
SmallPolygon ==
    [Geometry |-> RingG(2 * LeafWidth + 1, 3 * LeafWidth + 2), Properties |-> NilProps]
Line ==
    [Geometry |-> Geom("LineString", <<<<3 * LeafWidth + 1, 5 * LeafWidth>>>>),
     Properties |-> NilProps]

\* features PrepareIndexEntry refuses: an empty geometry, an unsupported one
EmptyPoint == [Geometry |-> Geom("Point", <<>>), Properties |-> NilProps]
Collection ==
    [Geometry |-> Geom("GeometryCollection", <<PointG(1)>>), Properties |-> NilProps]

GeoJSON(f) == [valid |-> TRUE, feature |-> f]
BadJSON ==
    [valid |-> FALSE, feature |-> [Geometry |-> EmptyGeometry, Properties |-> NilProps]]

In(id, f) == [ID |-> id, feature |-> f]

\* the calls of Put: ids that repeat, an empty id, bodies Put refuses
PutInputs ==
    {[id |-> Id_a, geoJSON |-> GeoJSON(NearPoint)],
     [id |-> Id_a, geoJSON |-> GeoJSON(SmallPolygon)],
     [id |-> Id_b, geoJSON |-> GeoJSON(BigPolygon)],
     [id |-> Id_b, geoJSON |-> GeoJSON(Line)],
     [id |-> Id_a, geoJSON |-> GeoJSON(EmptyPoint)],
     [id |-> Id_b, geoJSON |-> GeoJSON(Collection)],
     [id |-> Id_a, geoJSON |-> BadJSON],
     [id |-> <<>>, geoJSON |-> GeoJSON(NearPoint)]}

\* the batches a caller writes, their entries prepared by PrepareIndexEntry:
\* two ids, two ids that overwrite, an empty id after a good entry, one id
\* twice
BatchInputs ==
    {<<In(Id_a, NearPoint), In(Id_b, FarPoint)>>,
     <<In(Id_a, FarPoint), In(Id_b, BigPolygon)>>,
     <<In(Id_a, BigPolygon), In(<<>>, NearPoint)>>,
     <<In(Id_a, NearPoint), In(Id_a, BigPolygon)>>}

QueryCenters == {2 * LeafWidth + 2, 2 * LeafWidth + 3}
QueryRadii == {1, 2000}

NoCall == [op |-> "none", err |-> FALSE, panic |-> FALSE, batch |-> <<>>,
           entries |-> <<>>,
           center |-> 0, radiusMeters |-> 0, withGeometry |-> FALSE,
           interior |-> {}, exterior |-> {}, results |-> <<>>,
           stores |-> <<>>]

NoPending == [active |-> FALSE, center |-> 0, radiusMeters |-> 0,
              withGeometry |-> FALSE, interior |-> {}, exterior |-> {},
              stores |-> <<>>]

\* the geometry under each id after the entries of a committed batch
RECURSIVE Committed(_, _)
Committed(cur, batch) ==
    IF batch = <<>> THEN cur
    ELSE Committed([cur EXCEPT ![Head(batch).ID] = Head(batch).feature.Geometry],
                   Tail(batch))

\* history: the states the store goes through while a FindClosest call is
\* between its transactions
Seen(r) ==
    IF pending.active /\ ~r.err
    THEN [pending EXCEPT !.stores = Append(@, [objects |-> r.objects, index |-> r.index])]
    ELSE pending

\* a behaviour is the writes of the ingest tools and one FindClosest call of
\* the query tool, which starts in any state the writes reach
Queried == lastOp.op = "FindClosest"

\* the ingest tool not started
NoIngest == [main |-> "none"]

Init ==
    /\ objects = <<>>
    /\ index = <<>>
    /\ current = [id \in Ids |-> EmptyGeometry]
    /\ nWrites = 0
    /\ lastOp = NoCall
    /\ pending = NoPending
    /\ ingest = NoIngest

CallPut ==
    /\ nWrites < MaxWrites
    /\ ~Queried
    /\ \E in \in PutInputs :
        \E r \in {Put(db, in.id, in.geoJSON)} :
            /\ nWrites' = nWrites + 1
            /\ objects' = r.objects
            /\ index' = r.index
            /\ current' = IF r.err THEN current
                          ELSE [current EXCEPT ![in.id] = in.geoJSON.feature.Geometry]
            /\ lastOp' = [NoCall EXCEPT
                            !.op = "Put", !.err = r.err,
                            !.batch = <<In(in.id, in.geoJSON.feature)>>,
                            !.stores = <<db>>]
            /\ pending' = Seen(r)
            /\ UNCHANGED ingest

CallWriteBatch ==
    /\ nWrites < MaxWrites
    /\ ~Queried
    /\ \E batch \in BatchInputs :
        \E entries \in {[i \in 1..Len(batch) |->
                           PrepareIndexEntry(batch[i].ID, batch[i].feature).entry]} :
        \E r \in {WriteBatch(db, entries)} :
            /\ nWrites' = nWrites + 1
            /\ objects' = r.objects
            /\ index' = r.index
            /\ current' = IF r.err THEN current ELSE Committed(current, batch)
            /\ lastOp' = [NoCall EXCEPT
                            !.op = "WriteBatch", !.err = r.err, !.batch = batch,
                            !.entries = entries, !.stores = <<db>>]
            /\ pending' = Seen(r)
            /\ UNCHANGED ingest

\* FindClosest with no writer between its two read transactions
CallFindClosest ==
    /\ ~pending.active
    /\ ~Queried
    /\ \E center \in QueryCenters, radiusMeters \in QueryRadii, withGeometry \in BOOLEAN :
        \E cands \in {GatherCandidates(index, center, AngleFromMeters(radiusMeters))} :
            \E out \in FindClosestOn(objects, cands, center, radiusMeters, withGeometry) :
                /\ lastOp' = [NoCall EXCEPT
                                !.op = "FindClosest", !.panic = out.panic,
                                !.center = center, !.radiusMeters = radiusMeters,
                                !.withGeometry = withGeometry,
                                !.interior = cands.interior,
                                !.exterior = cands.exterior,
                                !.results = out.results,
                                !.stores = <<db>>]
                /\ UNCHANGED <<objects, index, current, nWrites, pending, ingest>>

Next == CallPut \/ CallWriteBatch \/ CallFindClosest

Spec == Init /\ [][Next]_vars

(***************************************************************************)
(* FindClosest beside a writer: its two db.View transactions are two       *)
(* steps, and a WriteBatch of another goroutine may commit between them    *)
(***************************************************************************)
\* the first db.View: the candidates are gathered from the index
GatherStep ==
    /\ ~pending.active
    /\ ~Queried
    /\ \E center \in QueryCenters, radiusMeters \in QueryRadii, withGeometry \in BOOLEAN :
        \E cands \in {GatherCandidates(index, center, AngleFromMeters(radiusMeters))} :
            /\ pending' = [active |-> TRUE, center |-> center,
                           radiusMeters |-> radiusMeters,
                           withGeometry |-> withGeometry,
                           interior |-> cands.interior,
                           exterior |-> cands.exterior,
                           stores |-> <<db>>]
            /\ UNCHANGED <<objects, index, current, nWrites, lastOp, ingest>>

\* the second db.View: the candidates are refined against the objects
\* bucket as it is now, the results sorted and returned
RefineStep ==
    /\ pending.active
    /\ \E out \in FindClosestOn(objects,
                                [interior |-> pending.interior,
                                 exterior |-> pending.exterior],
                                pending.center, pending.radiusMeters,
                                pending.withGeometry) :
          lastOp' = [NoCall EXCEPT
                       !.op = "FindClosest", !.panic = out.panic,
                       !.center = pending.center,
                       !.radiusMeters = pending.radiusMeters,
                       !.withGeometry = pending.withGeometry,
                       !.interior = pending.interior,
                       !.exterior = pending.exterior,
                       !.results = out.results,
                       !.stores = pending.stores]
    /\ pending' = NoPending
    /\ UNCHANGED <<objects, index, current, nWrites, ingest>>

NextConc == CallWriteBatch \/ GatherStep \/ RefineStep

SpecConc == Init /\ [][NextConc]_vars

(***************************************************************************)
(* What the callers are promised                                           *)
(***************************************************************************)
\* FindClosest returned its results to the caller
Returned == lastOp.op = "FindClosest" /\ ~lastOp.panic

ResultIds == {lastOp.results[i].ID : i \in 1..Len(lastOp.results)}
Candidates == lastOp.interior \cup lastOp.exterior
AngleRadius == AngleFromMeters(lastOp.radiusMeters)

\* a stored polygon contains a position: the position is within its ring
RingContains(g, x) ==
    /\ g.type = "Polygon"
    /\ Min(Range(g.parts[1])) <= x
    /\ x <= Max(Range(g.parts[1]))

\* the distance from a position to a stored geometry, 0 inside a polygon
GeomDistance(g, x) ==
    CASE g.type = "Point" -> DistanceFromSegment(x, g.parts[1][1], g.parts[1][1])
      [] g.type = "LineString" ->
            Min({DistanceFromSegment(x, g.parts[1][i], g.parts[1][i + 1]) :
                 i \in 1..(Len(g.parts[1]) - 1)})
      [] g.type = "Polygon" ->
            IF RingContains(g, x) THEN 0
            ELSE Min({DistanceFromSegment(x, v, v) : v \in Range(g.parts[1])})
      [] OTHER -> InfAngle

\* the geometry now stored under an id lies within the radius of the center
WithinRadius(id) == GeomDistance(current[id], lastOp.center) <= AngleRadius

\* C1: FindClosest returns the id of every stored feature whose current
\* geometry lies within the radius of the center, a polygon that contains
\* the center and is reached only through its ext: terms included
C1_NoFalseNegatives ==
    Returned => \A id \in Ids : WithinRadius(id) => id \in ResultIds

\* C2: every stored polygon that contains the query point is reported with
\* distance exactly 0, whether it became a candidate through an int: term
\* or only through an ext: term
C2_ContainingPolygonAtZero ==
    Returned =>
        \A i \in 1..Len(lastOp.results) :
            RingContains(current[lastOp.results[i].ID], lastOp.center)
                => lastOp.results[i].Distance = 0

\* C3: every item FindClosest returns has 0 <= Distance <= radius, is what
\* processCandidate computes from the blob now stored under its id, and its
\* feature is not farther than the radius
C3_NoFalsePositives ==
    Returned =>
        \A i \in 1..Len(lastOp.results) :
            /\ 0 <= lastOp.results[i].Distance
            /\ lastOp.results[i].Distance <= lastOp.radiusMeters
            /\ \E isInteriorMatch \in BOOLEAN :
                  processCandidate(lastOp.results[i].ID, lastOp.center, AngleRadius,
                                   lastOp.withGeometry, objects, isInteriorMatch)
                    = [CandidateNone EXCEPT !.found = TRUE,
                                            !.item = lastOp.results[i]]
            /\ WithinRadius(lastOp.results[i].ID)

\* a candidate farther than the radius was left out and another was returned
C3_CandidateRejected ==
    /\ Returned
    /\ lastOp.results # <<>>
    /\ \E id \in Candidates : id \notin ResultIds /\ ~WithinRadius(id)

\* C4: the slice FindClosest returns is in ascending order of Distance
C4_SortedByDistance ==
    Returned =>
        \A i, j \in 1..Len(lastOp.results) :
            i < j => lastOp.results[i].Distance <= lastOp.results[j].Distance

\* an interior and an exterior candidate were returned, at two distances
C4_TwoDistances ==
    /\ Returned
    /\ \E i, j \in 1..Len(lastOp.results) :
          /\ lastOp.results[i].Distance < lastOp.results[j].Distance
          /\ lastOp.results[i].ID \in lastOp.interior
          /\ lastOp.results[j].ID \in lastOp.exterior

\* C5: FindClosest returns each id at most once: the interior and exterior
\* candidate sets of the gather phase are disjoint
C5_EachIdOnce ==
    Returned =>
        /\ lastOp.interior \cap lastOp.exterior = {}
        /\ \A i, j \in 1..Len(lastOp.results) :
              lastOp.results[i].ID = lastOp.results[j].ID => i = j

\* an id returned as an interior candidate has ext: rows under the query
\* terms too, and the store was written twice
C5_BothKindsOfRows ==
    /\ Returned
    /\ nWrites = MaxWrites
    /\ \E id \in lastOp.interior :
          /\ id \in ResultIds
          /\ id \in UNION {ScanIds(index, Str_ext, t) :
                           t \in GetQueryTerms(Cap(lastOp.center, AngleRadius))}

RowPresent(kind, term, id) ==
    BucketGet(index, IndexKey(kind, term, id)) = [found |-> TRUE, v |-> Str_1]

RowsPresent(e) ==
    /\ \A t \in e.InteriorTerms : RowPresent(Str_int, t, e.ID)
    /\ \A t \in e.ExteriorTerms : RowPresent(Str_ext, t, e.ID)

BlobPresent(e) == BucketGet(objects, e.ID) = [found |-> TRUE, v |-> e.Blob]

\* no later entry of the batch has the id of entry i
LastForId(es, i) == \A j \in (i + 1)..Len(es) : es[j].ID # es[i].ID

\* the two buckets are as they were before the call
RolledBack == db = lastOp.stores[1]

\* C6 as stated: after WriteBatch returns nil the blob and every int:/ext:
\* row of every entry are present; after it returns an error the buckets
\* are as they were before the call
C6_AllOrNothing ==
    lastOp.op = "WriteBatch" =>
        IF lastOp.err THEN RolledBack
        ELSE \A i \in 1..Len(lastOp.entries) :
                BlobPresent(lastOp.entries[i]) /\ RowsPresent(lastOp.entries[i])

\* C6 amended: after WriteBatch returns nil every int:/ext: row of every
\* entry is present and, for each id, the blob of the last entry of the
\* batch with that id; after it returns an error the buckets are as they
\* were before the call
C6_AllOrNothingLastBlob ==
    lastOp.op = "WriteBatch" =>
        IF lastOp.err THEN RolledBack
        ELSE \A i \in 1..Len(lastOp.entries) :
                /\ LastForId(lastOp.entries, i) => BlobPresent(lastOp.entries[i])
                /\ RowsPresent(lastOp.entries[i])

\* a batch failed at its second entry, after the first was put, on a store
\* that held objects
C6_FailedAfterFirstEntry ==
    /\ lastOp.op = "WriteBatch"
    /\ lastOp.err
    /\ Len(lastOp.entries) = 2
    /\ lastOp.entries[1].ID # <<>>
    /\ objects # <<>>

\* C7: the result of a FindClosest call that runs beside WriteBatch calls is
\* the result FindClosest gives on one of the states the store went through
\* during the call, the one before a batch or the one after it
C7_ResultOfOneState ==
    lastOp.op = "FindClosest" =>
        \E i \in 1..Len(lastOp.stores) :
            [panic |-> lastOp.panic, results |-> lastOp.results]
                \in FindClosest(lastOp.stores[i], lastOp.center,
                                lastOp.radiusMeters, lastOp.withGeometry)

\* the id of an index key: the bytes after its first 0x00
IdOfKey(k) ==
    IF \E p \in 1..Len(k) : k[p] = NUL
    THEN SubSeq(k, Min({p \in 1..Len(k) : k[p] = NUL}) + 1, Len(k))
    ELSE <<>>

WellFormedKey(k) ==
    /\ HasPrefix(k, Str_int) \/ HasPrefix(k, Str_ext)
    /\ Cardinality({p \in 5..Len(k) : k[p] = NUL}) = 1
    /\ \A p \in 5..Len(k) : k[p] = NUL => 5 < p /\ p < Len(k)

\* C9: every key of the index bucket is "int:" or "ext:", a term, one 0x00
\* byte and a non-empty id, and its value is the one-byte presence marker
C9_IndexKeysWellFormed ==
    \A j \in 1..Len(index) : WellFormedKey(index[j].k) /\ index[j].v = Str_1

\* a write with an empty id was refused on a store that has index rows
C9_EmptyIdRefused ==
    /\ index # <<>>
    /\ lastOp.err
    /\ \E i \in 1..Len(lastOp.batch) : lastOp.batch[i].ID = <<>>

\* C10: after a point was put under an id, FindClosest at the point with a
\* radius of 1 m or more returns the id with a distance within the radius,
\* whatever was put under other ids
C10_PointFoundAtItself ==
    Returned /\ lastOp.radiusMeters >= 1 =>
        \A id \in Ids :
            current[id] = PointG(lastOp.center) =>
                \E i \in 1..Len(lastOp.results) :
                    /\ lastOp.results[i].ID = id
                    /\ lastOp.results[i].Distance <= lastOp.radiusMeters

\* FindClosest with a radius of 1 m at a stored point, another id stored
C10_QueryAtStoredPoint ==
    /\ Returned
    /\ lastOp.radiusMeters = Min(QueryRadii)
    /\ current[Id_a] = PointG(lastOp.center)
    /\ current[Id_b] # EmptyGeometry
    /\ Id_a \in ResultIds

\* what Put leaves for one input on the store it found: PrepareIndexEntry,
\* then WriteBatch of the one entry
PutOutcome(before, in, prep) ==
    IF prep.err THEN [err |-> TRUE, objects |-> before.objects, index |-> before.index]
    ELSE WriteBatch(before, <<prep.entry>>)

\* the inputs Put refuses: a body that is no GeoJSON leaves the empty
\* geometry, an empty geometry, an unsupported geometry type, an empty id
PutRefuses(in) ==
    \/ GeomIsEmpty(in.feature.Geometry)
    \/ geomToS2(in.feature.Geometry).err
    \/ in.ID = <<>>

\* C11: Put is PrepareIndexEntry followed by WriteBatch of that one entry,
\* and when it fails (invalid JSON, empty geometry, unsupported geometry
\* type, empty id) it returns an error and leaves both buckets unchanged
C11_PutFailsClean ==
    lastOp.op = "Put" =>
        /\ [err |-> lastOp.err, objects |-> objects, index |-> index]
              = PutOutcome(lastOp.stores[1], lastOp.batch[1],
                           PrepareIndexEntry(lastOp.batch[1].ID,
                                             lastOp.batch[1].feature))
        /\ PutRefuses(lastOp.batch[1]) => lastOp.err
        /\ lastOp.err => RolledBack

\* Put of an unsupported geometry type failed on a store that holds objects
C11_UnsupportedTypeRefused ==
    /\ lastOp.op = "Put"
    /\ lastOp.err
    /\ lastOp.batch[1].feature.Geometry.type = "GeometryCollection"
    /\ ~GeomIsEmpty(lastOp.batch[1].feature.Geometry)
    /\ objects # <<>>

\* the distance calculateMinDistance gives for a stored geometry: the
\* distance to its nearest edge
EdgeDistance(g, x) == calculateMinDistance(x, geomToS2(g).shapes)

\* the rows an index bucket held are rows of the index bucket now
RowsKept(old) == \A j \in 1..Len(old) : BucketGet(index, old[j].k).found

\* the exterior and interior terms of the geometry now stored under an id
CurrentTerms(id) ==
    PrepareIndexEntry(id, [Geometry |-> current[id], Properties |-> NilProps]).entry.ExteriorTerms
    \cup
    PrepareIndexEntry(id, [Geometry |-> current[id], Properties |-> NilProps]).entry.InteriorTerms

PrepareGeometries ==
    {PointG(x) : x \in 0..(8 * LeafWidth - 1)}
    \cup {Geom("MultiPoint", <<<<x>>, <<y>>>>) :
            x \in {0, 3 * LeafWidth + 1}, y \in {1, LeafWidth + 1, 7 * LeafWidth + 2}}
    \cup {Geom("LineString", <<<<a, b>>>>) :
            a \in {1, 2 * LeafWidth + 1}, b \in {2 * LeafWidth + 2, 3 * LeafWidth, 8 * LeafWidth - 1}}
    \cup {Geom("MultiLineString", <<<<a, a + 1>>, <<b, b + 2 * LeafWidth>>>>) :
            a \in {0, 5 * LeafWidth}, b \in {LeafWidth, 2 * LeafWidth + 3, 4 * LeafWidth}}
    \cup {BigPolygon.Geometry, SmallPolygon.Geometry, EmptyPoint.Geometry}

InitPrepare ==
    /\ objects = <<>>
    /\ index = <<>>
    /\ current = [id \in Ids |-> EmptyGeometry]
    /\ nWrites = 0
    /\ pending = NoPending
    /\ ingest = NoIngest
    /\ \E g \in PrepareGeometries :
          lastOp = [op |-> "feature", ID |-> Id_a,
                    feature |-> [Geometry |-> g, Properties |-> Props_t]]

CallPrepareIndexEntry ==
    /\ lastOp.op = "feature"
    /\ \E r \in {PrepareIndexEntry(lastOp.ID, lastOp.feature)} :
          lastOp' = [op |-> "PrepareIndexEntry", ID |-> lastOp.ID,
                     feature |-> lastOp.feature, err |-> r.err, entry |-> r.entry]
    /\ UNCHANGED <<objects, index, current, nWrites, pending, ingest>>

SpecPrepare == InitPrepare /\ [][CallPrepareIndexEntry]_vars

\* C13: the entry PrepareIndexEntry returns for a point, a multipoint, a
\* linestring or a multilinestring has no interior term and at least one
\* exterior term
C13_NoInteriorForPointsAndLines ==
    /\ lastOp.op = "PrepareIndexEntry"
    /\ ~lastOp.err
    /\ lastOp.feature.Geometry.type
          \in {"Point", "MultiPoint", "LineString", "MultiLineString"}
    => /\ lastOp.entry.InteriorTerms = {}
       /\ lastOp.entry.ExteriorTerms # {}

\* a multilinestring whose lines span several leaf cells was prepared, and a
\* polygon prepared the same way would have interior terms
C13_LinesPrepared ==
    /\ lastOp.op = "PrepareIndexEntry"
    /\ ~lastOp.err
    /\ lastOp.feature.Geometry.type = "MultiLineString"
    /\ Cardinality(lastOp.entry.ExteriorTerms) > 1
    /\ PrepareIndexEntry(Id_a, BigPolygon).entry.InteriorTerms # {}

\* the items of a result without their geometries
WithoutGeometry(items) ==
    [i \in 1..Len(items) |-> [items[i] EXCEPT !.Geometry = EmptyGeometry]]

\* C14: FindClosest with withGeometry false returns the ids, properties and
\* distances it returns with withGeometry true on the same store, and each
\* item it returns then has an empty Geometry
C14_SameWithoutGeometry ==
    Returned =>
        IF lastOp.withGeometry
        THEN [panic |-> FALSE, results |-> WithoutGeometry(lastOp.results)]
                \in FindClosest(db, lastOp.center, lastOp.radiusMeters, FALSE)
        ELSE /\ \A i \in 1..Len(lastOp.results) :
                    lastOp.results[i].Geometry = EmptyGeometry
             /\ \E out \in FindClosest(db, lastOp.center, lastOp.radiusMeters, TRUE) :
                    /\ ~out.panic
                    /\ WithoutGeometry(out.results) = lastOp.results
                    /\ \A i \in 1..Len(out.results) :
                          out.results[i].Geometry # EmptyGeometry

\* FindClosest without geometry returned two items, one with properties
C14_TwoItemsWithoutGeometry ==
    /\ Returned
    /\ ~lastOp.withGeometry
    /\ Len(lastOp.results) = 2
    /\ \E i \in 1..2 : ~lastOp.results[i].Properties.nil

(***************************************************************************)
(* Blobs that were not written by encodeFullEntry: decodeFullEntry alone,  *)
(* and FindClosest on a store that holds such blobs.  IndexEntry is an     *)
(* exported struct and WriteBatch stores the Blob it is given.             *)
(***************************************************************************)
\* a shape-type byte that is none of the three the codec writes
UnknownType == 9

\* the uvarint of 2^63 - 1: a length no buffer has and make refuses
OversizedUvarint == <<255, 255, 255, 255, 255, 255, 255, 255, 127>>

\* eleven continuation bytes: binary.ReadUvarint reports an overflow
OverflowingUvarint == [i \in 1..(MaxVarintLen64 + 1) |-> 255]

SetByte(b, pos, v) == [b EXCEPT ![pos + 1] = v]

\* the offset of the shape table of a blob: after the properties and the
\* shape count
TableOffset(props, shapes) ==
    Len(PutUvarint(Len(props))) + Len(props) + Len(PutUvarint(Len(shapes)))

\* the offset of the version byte of the body of the first shape
BodyVersionOffset(props, shapes) ==
    TableOffset(props, shapes) + 1 + Len(PutUvarint(Len(ShapeBody(shapes[1]))))
    + (IF shapes[1].kind = "PointVector" THEN Len(PutUvarint(Len(shapes[1].pts)))
       ELSE 0)

\* the blob of a feature, damaged: cut to its first n bytes, the type byte
\* of its first shape unknown, the version byte of its first shape body
\* wrong, one of its three lengths oversized or overflowing
DamagedBlob(props, shapes, damage, n) ==
    CASE damage = "truncated" ->
            SubSeq(encodeFullEntry(shapes, props).blob, 1, n)
      [] damage = "type" ->
            SetByte(encodeFullEntry(shapes, props).blob,
                    TableOffset(props, shapes), UnknownType)
      [] damage = "body" ->
            SetByte(encodeFullEntry(shapes, props).blob,
                    BodyVersionOffset(props, shapes), encodingVersion + 1)
      [] damage = "propLen" ->
            OversizedUvarint
            \o SubSeq(encodeFullEntry(shapes, props).blob,
                      Len(PutUvarint(Len(props))) + 1,
                      Len(encodeFullEntry(shapes, props).blob))
      [] damage = "shapeCount" ->
            PutUvarint(Len(props)) \o props \o OversizedUvarint
            \o SubSeq(encodeFullEntry(shapes, props).blob,
                      TableOffset(props, shapes) + 1,
                      Len(encodeFullEntry(shapes, props).blob))
      [] damage = "shapeLen" ->
            SubSeq(encodeFullEntry(shapes, props).blob, 1,
                   TableOffset(props, shapes) + 1)
            \o OversizedUvarint
            \o SubSeq(encodeFullEntry(shapes, props).blob,
                      TableOffset(props, shapes) + 2
                        + Len(PutUvarint(Len(ShapeBody(shapes[1])))),
                      Len(encodeFullEntry(shapes, props).blob))
      [] damage = "overflow" ->
            OverflowingUvarint \o encodeFullEntry(shapes, props).blob
      [] OTHER -> encodeFullEntry(shapes, props).blob

Damages == {"type", "body", "propLen", "shapeCount", "shapeLen", "overflow"}

FeatureBlob(f, damage, n) ==
    DamagedBlob(jsonMarshal(f.Properties), geomToS2(f.Geometry).shapes, damage, n)

\* the blobs decodeFullEntry is given: those of five features, whole, cut at
\* every length, and damaged in each of the other ways
DecodeInputs ==
    UNION {{[data |-> FeatureBlob(f, "none", 0), damage |-> "none"]}
           \cup {[data |-> FeatureBlob(f, d, 0), damage |-> d] : d \in Damages}
           \cup {[data |-> FeatureBlob(f, "truncated", n), damage |-> "truncated"] :
                   n \in 0..(Len(FeatureBlob(f, "none", 0)) - 1)} :
           f \in {NearPoint, FarPoint, Line, BigPolygon, SmallPolygon}}

InitDecode ==
    /\ objects = <<>>
    /\ index = <<>>
    /\ current = [id \in Ids |-> EmptyGeometry]
    /\ nWrites = 0
    /\ pending = NoPending
    /\ ingest = NoIngest
    /\ \E in \in DecodeInputs :
          lastOp = [op |-> "blob", data |-> in.data, damage |-> in.damage]

\* decodeFullEntry, then every shape of the factory as processCandidate
\* loads them
CallDecodeFullEntry ==
    /\ lastOp.op = "blob"
    /\ \E r \in {decodeFullEntry(lastOp.data)} :
          lastOp' = [op |-> "decodeFullEntry", data |-> lastOp.data,
                     damage |-> lastOp.damage, err |-> r.err, panic |-> r.panic,
                     shapes |-> AllShapes(r.factory)]
    /\ UNCHANGED <<objects, index, current, nWrites, pending, ingest>>

SpecDecode == InitDecode /\ [][CallDecodeFullEntry]_vars

\* the entries a caller builds by hand: the entry PrepareIndexEntry returns
\* for a feature, its Blob whole, cut short or damaged
RawInputs ==
    {[ID |-> Id_a, feature |-> NearPoint, damage |-> "none", n |-> 0],
     [ID |-> Id_a, feature |-> NearPoint, damage |-> "truncated", n |-> 5],
     [ID |-> Id_a, feature |-> NearPoint, damage |-> "type", n |-> 0],
     [ID |-> Id_a, feature |-> SmallPolygon, damage |-> "propLen", n |-> 0],
     [ID |-> Id_b, feature |-> BigPolygon, damage |-> "none", n |-> 0],
     [ID |-> Id_b, feature |-> BigPolygon, damage |-> "body", n |-> 0],
     [ID |-> Id_b, feature |-> Line, damage |-> "shapeLen", n |-> 0],
     [ID |-> Id_b, feature |-> NearPoint, damage |-> "overflow", n |-> 0]}

RawEntry(in) ==
    [PrepareIndexEntry(in.ID, in.feature).entry
        EXCEPT !.Blob = FeatureBlob(in.feature, in.damage, in.n)]

\* WriteBatch of one entry built by hand
CallWriteBatchRaw ==
    /\ nWrites < MaxWrites
    /\ ~Queried
    /\ \E in \in RawInputs :
        \E r \in {WriteBatch(db, <<RawEntry(in)>>)} :
            /\ nWrites' = nWrites + 1
            /\ objects' = r.objects
            /\ index' = r.index
            /\ current' = IF r.err THEN current
                          ELSE [current EXCEPT ![in.ID] = in.feature.Geometry]
            /\ lastOp' = [NoCall EXCEPT
                            !.op = "WriteBatch", !.err = r.err,
                            !.batch = <<In(in.ID, in.feature)>>,
                            !.entries = <<RawEntry(in)>>, !.stores = <<db>>]
            /\ pending' = Seen(r)
            /\ UNCHANGED ingest

NextCorrupt == CallWriteBatchRaw \/ CallFindClosest

SpecCorrupt == Init /\ [][NextCorrupt]_vars

\* C19: FindClosest does not crash because of one candidate whose blob is
\* missing or corrupt: the candidate is skipped and every other candidate
\* that matches is returned
C19_BadCandidateSkipped ==
    lastOp.op = "FindClosest" =>
        /\ ~lastOp.panic
        /\ \A id \in Candidates :
              processCandidate(id, lastOp.center, AngleRadius, lastOp.withGeometry,
                               objects, id \in lastOp.interior).found
                => id \in ResultIds

\* C20: decodeFullEntry returns an error for a blob that is cut short, has
\* an unknown shape-type byte, an oversized or overflowing length or a shape
\* body that cannot be decoded; when it returns without error its factory
\* returns no nil shape
C20_CorruptBlobFails ==
    lastOp.op = "decodeFullEntry" =>
        /\ lastOp.damage # "none" => lastOp.err /\ ~lastOp.panic
        /\ ~lastOp.err /\ ~lastOp.panic =>
              \A i \in 1..Len(lastOp.shapes) : lastOp.shapes[i] # NilShape

(***************************************************************************)
(* The id the ingest tools give a feature.  The id member and the name     *)
(* property of a feature are JSON values decoded into interface{}: a       *)
(* member that is absent or null leaves ID nil, a name that is null is in  *)
(* the map with a nil value.                                               *)
(***************************************************************************)
Absent == [t |-> "absent", s |-> <<>>, n |-> 0]
JNull == [t |-> "null", s |-> <<>>, n |-> 0]
JString(s) == [t |-> "string", s |-> s, n |-> 0]
JNumber(n) == [t |-> "number", s |-> <<>>, n |-> n]

\* strconv of a whole float64 below a million: its decimal digits
RECURSIVE FormatDigits(_)
FormatDigits(n) ==
    IF n < 10 THEN <<48 + n>> ELSE FormatDigits(n \div 10) \o <<48 + (n % 10)>>

\* "<nil>"
Str_nil == <<60, 110, 105, 108, 62>>

\* fmt.Sprintf("%v", v)
Sprintf_v(v) ==
    IF v.t = "string" THEN v.s
    ELSE IF v.t = "number" THEN FormatDigits(v.n)
    ELSE Str_nil

\* the id and name members as the tools find them in the decoded feature
FeatureHead(id, name) == [id |-> id, name |-> name]

\* a faulty SimpleDeriveID: properties.name is preferred to the id
SimpleDeriveID_nameFirst(feat, uuid) ==
    IF feat.name.t # "absent" THEN Sprintf_v(feat.name)
    ELSE IF feat.id.t \notin {"absent", "null"} THEN Sprintf_v(feat.id)
    ELSE uuid

\* ingest-simple: id := uuid.New().String(); if feat.ID != nil ...; else if
\* n, ok := feat.Properties["name"]; ok ...
SimpleDeriveID(feat, uuid) ==
    IF feat.id.t \notin {"absent", "null"} THEN Sprintf_v(feat.id)
    ELSE IF feat.name.t # "absent" THEN Sprintf_v(feat.name)
    ELSE uuid

\* ingest-parallel, in the worker: the same on tempFeature, which Unmarshal
\* has just filled from the job
WorkerDeriveID(feat, uuid) ==
    IF feat.id.t \notin {"absent", "null"} THEN Sprintf_v(feat.id)
    ELSE IF feat.name.t # "absent" THEN Sprintf_v(feat.name)
    ELSE uuid

\* the id and name members met in the input, and the strings uuid.New gives
HeadValues ==
    {Absent, JNull, JString(<<>>), JString(<<97>>), JString(<<98>>),
     JNumber(7), JNumber(42)}
Uuid_1 == <<117, 49>>
Uuid_2 == <<117, 50>>
Uuids == {Uuid_1, Uuid_2}

InitDerive ==
    /\ objects = <<>>
    /\ index = <<>>
    /\ current = [id \in Ids |-> EmptyGeometry]
    /\ nWrites = 0
    /\ pending = NoPending
    /\ ingest = NoIngest
    /\ \E id \in HeadValues, name \in HeadValues, u \in Uuids :
          lastOp = [op |-> "head", feat |-> FeatureHead(id, name), uuid |-> u,
                    ID |-> <<>>]

\* the worker derives the id of the feature of a job
CallWorkerDeriveID ==
    /\ lastOp.op = "head"
    /\ lastOp' = [lastOp EXCEPT !.op = "worker",
                                !.ID = WorkerDeriveID(lastOp.feat, lastOp.uuid)]
    /\ UNCHANGED <<objects, index, current, nWrites, pending, ingest>>

\* ingest-simple derives the id of a feature of the collection
CallSimpleDeriveID ==
    /\ lastOp.op = "head"
    /\ lastOp' = [lastOp EXCEPT !.op = "simple",
                                !.ID = SimpleDeriveID(lastOp.feat, lastOp.uuid)]
    /\ UNCHANGED <<objects, index, current, nWrites, pending, ingest>>

NextDerive == CallWorkerDeriveID \/ CallSimpleDeriveID

SpecDerive == InitDerive /\ [][NextDerive]_vars

(***************************************************************************)
(* The parallel ingest tool: main decodes the elements of the features     *)
(* array and sends them on jobChan, the workers prepare an entry for each  *)
(* and send it on resultChan, the writer collects the entries in batches   *)
(* and writes them.  The behaviour starts at the first token of the file;   *)
(* each step is one channel operation, one loop or one call.               *)
(***************************************************************************)
WorkerCounts == {1, 2}
BatchSizes == {1, 2}
Workers == 1..Max(WorkerCounts)

\* an element of the features array: a feature, a JSON value that is no
\* feature (valid is false), or bytes that are no JSON value; prep is what
\* PrepareIndexEntry returns for the element
Element(id, f) ==
    [kind |-> "feature", valid |-> TRUE, ID |-> id, feature |-> f,
     prep |-> PrepareIndexEntry(id, f)]
NoFeature == [Element(Id_a, EmptyPoint) EXCEPT !.valid = FALSE]
Malformed == [Element(<<>>, EmptyPoint) EXCEPT !.kind = "malformed", !.valid = FALSE]

\* the features array read as one JSON value: json.Unmarshal into a feature
\* fails on it
FeaturesArray == [NoFeature EXCEPT !.kind = "array", !.ID = <<>>]

\* the tokens of a file before the bracket of its features array:
\* {"type":"FeatureCollection","features":[ and
\* {"type":"FeatureCollection","name":"features","features":[
\* After the array the brace closes the object
Head_plain == <<"{", "type", "FeatureCollection", "features">>
Head_named == <<"{", "type", "FeatureCollection", "name", "features", "features">>

\* the loop over dec.Token(): the position of the first string token equal
\* to "features" from position i on, a member key or a member value; 0 when
\* the tokens end before one
RECURSIVE LocateFeatures(_, _)
LocateFeatures(head, i) ==
    IF i > Len(head) THEN 0
    ELSE IF head[i] = "features" THEN i
    ELSE LocateFeatures(head, i + 1)

\* what dec.More() and dec.Decode(&raw) read after the token at position
\* pos: past the bracket, the elements of the array; past the key of the
\* array, the colon and the array as the one value of the member
ValuesAfter(head, pos, source) ==
    IF pos > Len(head) THEN source ELSE <<FeaturesArray>>

\* the input files: features of two ids, an empty derived id beside a good
\* feature, elements the workers drop, an element the decoder cannot read,
\* more elements than the channels hold, as many as fill both channels
\* with one worker, a refused geometry beside a good feature, no element
IngestSources ==
    {<<Element(Id_a, NearPoint), Element(Id_b, FarPoint)>>,
     <<Element(Id_a, NearPoint), Element(<<>>, FarPoint), Element(Id_b, FarPoint)>>,
     <<NoFeature, Element(Id_a, NearPoint), Element(Id_b, EmptyPoint)>>,
     <<Element(Id_b, Collection), Element(Id_b, FarPoint)>>,
     <<Element(Id_a, NearPoint), Malformed, Element(Id_b, FarPoint)>>,
     <<Element(Id_a, NearPoint), Element(Id_b, FarPoint), Element(Id_a, BigPolygon)>>,
     <<Element(Id_a, BigPolygon), Element(Id_b, Collection)>>,
     <<Element(Id_a, NearPoint), Element(Id_b, FarPoint), Element(Id_a, FarPoint),
       Element(Id_b, NearPoint), Element(Id_a, NearPoint)>>,
     <<>>}

\* every array under the plain head, one of them under the head with a
\* member of the value "features" as well
IngestFiles ==
    {[head |-> Head_plain, source |-> src] : src \in IngestSources}
    \cup {[head |-> Head_named,
           source |-> <<Element(Id_a, NearPoint), Element(Id_b, FarPoint)>>]}

\* a faulty JobChanCap: room for four jobs for each worker
JobChanCap_double(g) == g.workers * 4

\* make(chan Job, *workers*2) and make(chan geostore.IndexEntry, *batchSize)
JobChanCap(g) == g.workers * 2
ResultChanCap(g) == g.batchSize

\* the tool at the first token of the file.  The last four fields are
\* the histories of the run: emitted counts the jobs main sent, dropped the
\* jobs a worker gave up, sent lists the entries sent on resultChan,
\* written the batches WriteBatch was called with
InitIngest ==
    /\ objects = <<>>
    /\ index = <<>>
    /\ current = [id \in Ids |-> EmptyGeometry]
    /\ nWrites = 0
    /\ lastOp = NoCall
    /\ pending = NoPending
    /\ \E w \in WorkerCounts, b \in BatchSizes, file \in IngestFiles :
          ingest = [workers |-> w, batchSize |-> b, head |-> file.head, pos |-> 0,
                    source |-> file.source, input |-> <<>>,
                    main |-> "locate", raw |-> Malformed, decErr |-> FALSE,
                    jobChan |-> <<>>, jobClosed |-> FALSE,
                    wpc |-> [i \in Workers |-> IF i <= w THEN "recv" ELSE "none"],
                    wjob |-> [i \in Workers |-> Malformed],
                    wentry |-> [i \in Workers |-> NoEntry],
                    resultChan |-> <<>>, resultClosed |-> FALSE, panic |-> FALSE,
                    writer |-> "recv", batch |-> <<>>, writeDone |-> FALSE,
                    writeFailed |-> FALSE,
                    emitted |-> 0, dropped |-> 0, sent |-> <<>>, written |-> <<>>]

\* a step of the tool that leaves the store alone
IngestStep(g) ==
    /\ ingest' = g
    /\ UNCHANGED <<objects, index, current, nWrites, lastOp, pending>>

\* the loop that locates the word "features": it ends at the first string
\* token equal to it.  A file without one ends the tool in log.Fatal; every
\* file of IngestFiles has one
MainLocate ==
    /\ ingest.main = "locate"
    /\ LocateFeatures(ingest.head, 1) > 0
    /\ IngestStep([ingest EXCEPT !.pos = LocateFeatures(ingest.head, 1),
                                  !.main = "open"])

\* dec.Token(), meant to read the bracket of the array: it reads the token
\* after the word, whatever it is
MainOpen ==
    /\ ingest.main = "open"
    /\ IngestStep([ingest EXCEPT
                      !.pos = @ + 1,
                      !.input = ValuesAfter(ingest.head, ingest.pos + 1, ingest.source),
                      !.main = "more"])

\* dec.More(): an element is left to read.  After an error of Decode the
\* decoder has not moved: More reports the byte it stopped at, true unless
\* that byte closes the array
MainMore ==
    /\ ingest.main = "more"
    /\ \E more \in IF ingest.decErr THEN BOOLEAN ELSE {ingest.input # <<>>} :
          IngestStep([ingest EXCEPT !.main = IF more THEN "decode" ELSE "close"])

\* dec.Decode(&raw): the next element, or the error, which is logged before
\* the loop continues; the error of a decoder stays
MainDecode ==
    /\ ingest.main = "decode"
    /\ IF ingest.decErr \/ Head(ingest.input).kind = "malformed"
       THEN IngestStep([ingest EXCEPT !.decErr = TRUE, !.main = "more"])
       ELSE IngestStep([ingest EXCEPT !.raw = Head(ingest.input),
                                      !.input = Tail(ingest.input),
                                      !.main = "send"])

\* jobChan <- Job{RawFeature: raw}
MainSend ==
    /\ ingest.main = "send"
    /\ Len(ingest.jobChan) < JobChanCap(ingest)
    /\ IngestStep([ingest EXCEPT !.jobChan = Append(@, ingest.raw), !.main = "more",
                                  !.emitted = @ + 1])

\* close(jobChan)
MainCloseJobs ==
    /\ ingest.main = "close"
    /\ IngestStep([ingest EXCEPT !.jobClosed = TRUE, !.main = "wait"])

\* a faulty WorkersExited: main does not wait for the workers
WorkersExited_noWait(g) == TRUE

\* every worker has called wg.Done
WorkersExited(g) == \A w \in Workers : g.wpc[w] \in {"exit", "none"}

\* wg.Wait()
MainWait ==
    /\ ingest.main = "wait"
    /\ WorkersExited(ingest)
    /\ IngestStep([ingest EXCEPT !.main = "closeResults"])

\* close(resultChan)
MainCloseResults ==
    /\ ingest.main = "closeResults"
    /\ IngestStep([ingest EXCEPT !.resultClosed = TRUE, !.main = "waitDone"])

\* <-writeDone, then main returns
MainDone ==
    /\ ingest.main = "waitDone"
    /\ ingest.writeDone
    /\ IngestStep([ingest EXCEPT !.main = "done"])

MainStep ==
    \/ MainLocate \/ MainOpen
    \/ MainMore \/ MainDecode \/ MainSend \/ MainCloseJobs
    \/ MainWait \/ MainCloseResults \/ MainDone

\* a faulty JobsDone: the range over jobChan does not end at its close
JobsDone_never(g) == FALSE

\* the range over jobChan ends: the channel is closed and drained
JobsDone(g) == g.jobClosed /\ g.jobChan = <<>>

\* for job := range jobChan
WorkerRecv(w) ==
    /\ ingest.wpc[w] = "recv"
    /\ IF ingest.jobChan # <<>>
       THEN IngestStep([ingest EXCEPT !.wjob[w] = Head(ingest.jobChan),
                                      !.jobChan = Tail(@),
                                      !.wpc[w] = "work"])
       ELSE /\ JobsDone(ingest)
            /\ IngestStep([ingest EXCEPT !.wpc[w] = "exit"])

\* the entry a worker sends for a job, or the reason it takes the next job:
\* json.Unmarshal failed, or PrepareIndexEntry did
WorkerOutcome(g, w, job, prep) ==
    IF ~job.valid \/ prep.err THEN [g EXCEPT !.wpc[w] = "recv", !.dropped = @ + 1]
    ELSE [g EXCEPT !.wentry[w] = prep.entry, !.wpc[w] = "send"]

\* json.Unmarshal, the id, PrepareIndexEntry
WorkerWork(w) ==
    /\ ingest.wpc[w] = "work"
    /\ IngestStep(WorkerOutcome(ingest, w, ingest.wjob[w], ingest.wjob[w].prep))

\* resultChan <- entry; a send on a closed channel panics
WorkerSend(w) ==
    /\ ingest.wpc[w] = "send"
    /\ IF ingest.resultClosed
       THEN IngestStep([ingest EXCEPT !.panic = TRUE, !.wpc[w] = "exit"])
       ELSE /\ Len(ingest.resultChan) < ResultChanCap(ingest)
            /\ IngestStep([ingest EXCEPT !.resultChan = Append(@, ingest.wentry[w]),
                                         !.sent = Append(@, ingest.wentry[w]),
                                         !.wpc[w] = "recv"])

WorkerStep(w) == WorkerRecv(w) \/ WorkerWork(w) \/ WorkerSend(w)

\* a faulty BatchFull: the batch is flushed one entry late
BatchFull_late(batch, batchSize) == Len(batch) > batchSize

\* len(batch) >= *batchSize
BatchFull(batch, batchSize) == Len(batch) >= batchSize

\* for entry := range resultChan: append, flush when the batch is full; the
\* final flush after the channel is closed and drained
WriterRecv ==
    /\ ingest.writer = "recv"
    /\ IF ingest.resultChan # <<>>
       THEN IngestStep([ingest EXCEPT
                          !.batch = Append(@, Head(ingest.resultChan)),
                          !.resultChan = Tail(@),
                          !.writer = IF BatchFull(Append(ingest.batch,
                                                         Head(ingest.resultChan)),
                                                  ingest.batchSize)
                                     THEN "flush" ELSE "recv"])
       ELSE /\ ingest.resultClosed
            /\ IngestStep([ingest EXCEPT !.writer = "final"])

\* flush: WriteBatch of a batch that is not empty, its error logged;
\* written is the history of the batches WriteBatch was called with
WriterFlush ==
    /\ ingest.writer \in {"flush", "final"}
    /\ \E r \in {IF ingest.batch = <<>>
                 THEN [err |-> FALSE, objects |-> objects, index |-> index]
                 ELSE WriteBatch(db, ingest.batch)} :
          /\ objects' = r.objects
          /\ index' = r.index
          /\ ingest' = [ingest EXCEPT
                          !.batch = <<>>,
                          !.written = IF ingest.batch = <<>> THEN @
                                      ELSE Append(@, ingest.batch),
                          !.writeFailed = @ \/ r.err,
                          !.writer = IF ingest.writer = "flush" THEN "recv"
                                     ELSE "signal"]
    /\ UNCHANGED <<current, nWrites, lastOp, pending>>

\* close(writeDone)
WriterSignal ==
    /\ ingest.writer = "signal"
    /\ IngestStep([ingest EXCEPT !.writeDone = TRUE, !.writer = "closed"])

WriterStep == WriterRecv \/ WriterFlush \/ WriterSignal

NextIngest == MainStep \/ (\E w \in Workers : WorkerStep(w)) \/ WriterStep

\* the Go scheduler runs every goroutine that can take a step, and a call of
\* WriteBatch returns: the writer does not stay in a flush
SpecIngest ==
    /\ InitIngest
    /\ [][NextIngest]_vars
    /\ WF_vars(MainStep)
    /\ \A w \in Workers : WF_vars(WorkerStep(w))
    /\ WF_vars(WriterRecv \/ WriterSignal)
    /\ []<>(ingest.writer \notin {"flush", "final"})

\* a feature of the input that can be stored: it parses, its geometry is
\* accepted and its id is not empty
Storable(e) ==
    /\ e.kind = "feature"
    /\ e.valid
    /\ e.ID # <<>>
    /\ ~e.prep.err

Finished == ingest.main = "done"

\* C15: a feature that cannot be stored is dropped and is not fatal: the
\* tool runs on, and when it has finished every feature of the input that
\* can be stored is in the store
C15_BadFeaturesDropped ==
    /\ ~ingest.panic
    /\ Finished =>
          \A i \in 1..Len(ingest.source) :
              Storable(ingest.source[i])
                => BucketGet(objects, ingest.source[i].ID).found

\* C16: after the first error of Decode on an element of the array the
\* decoder sends no further job and the run ends
C16_RunEndsAfterDecodeError ==
    /\ [](ingest.decErr => ingest.main # "send")
    /\ ingest.decErr ~> Finished

\* C17: jobChan is closed after the decoder sent its last job; resultChan is
\* closed after every worker has exited, so no worker sends on it closed;
\* writeDone is closed after the writer drained resultChan and made its
\* final flush; when main is past the wait for writeDone no entry is left in
\* a channel or in the batch of the writer
C17_ShutdownOrder ==
    /\ ingest.jobClosed =>
          /\ ingest.main \in {"wait", "closeResults", "waitDone", "done"}
          /\ ingest.input = <<>> \/ ingest.decErr
    /\ ingest.resultClosed =>
          /\ \A w \in Workers : ingest.wpc[w] \in {"exit", "none"}
          /\ ingest.jobChan = <<>>
    /\ ~ingest.panic
    /\ ingest.writeDone =>
          /\ ingest.resultClosed
          /\ ingest.resultChan = <<>>
          /\ ingest.batch = <<>>
          /\ ingest.writer = "closed"
    /\ Finished =>
          /\ ingest.writeDone
          /\ ingest.jobChan = <<>>
          /\ ingest.resultChan = <<>>
          /\ ingest.batch = <<>>

\* two workers and a batch size of two: main is past the wait and the two
\* features of the input are in the store
C17_FinishedWithTwoWorkers ==
    /\ Finished
    /\ ingest.workers = 2
    /\ ingest.batchSize = 2
    /\ Len(objects) = 2

\* the pipeline at rest: main returned, every worker exited, the writer done
AllExited ==
    /\ Finished
    /\ \A w \in Workers : ingest.wpc[w] \in {"exit", "none"}
    /\ ingest.writer = "closed"

\* C18: for an input every element of which the decoder can read, any of
\* the worker counts and batch sizes, the tool terminates when every
\* goroutine that can run does: no interleaving blocks on the two bounded
\* channels, also when a WriteBatch fails
C18_Terminates ==
    (\A i \in 1..Len(ingest.source) : ingest.source[i].kind # "malformed")
        ~> AllExited

\* the tool finished an input of more elements than jobChan holds with one
\* worker, and a WriteBatch had failed
C18_FinishedAfterFailedWrite ==
    /\ AllExited
    /\ ingest.writeFailed
    /\ ingest.workers = 1
    /\ Len(ingest.source) > JobChanCap(ingest)

\* C21: the id of a feature is the string form of its id member when it has
\* one, else the string form of properties.name when it has one, else the
\* fresh UUID; in the worker of ingest-parallel and in ingest-simple alike
C21_IdDerivation ==
    lastOp.op \in {"worker", "simple"} =>
        lastOp.ID =
            CASE lastOp.feat.id.t = "string" -> lastOp.feat.id.s
              [] lastOp.feat.id.t = "number" -> FormatDigits(lastOp.feat.id.n)
              [] lastOp.feat.name.t = "string" -> lastOp.feat.name.s
              [] lastOp.feat.name.t = "number" -> FormatDigits(lastOp.feat.name.n)
              [] lastOp.feat.name.t = "null" -> Str_nil
              [] OTHER -> lastOp.uuid

\* ingest-simple took the name of a feature without id: "42" for the number
C21_NameTakenBySimple ==
    /\ lastOp.op = "simple"
    /\ lastOp.feat.id.t = "null"
    /\ lastOp.feat.name = JNumber(42)
    /\ lastOp.ID = <<52, 50>>

(***************************************************************************)
(* A feature indexed in an empty store and a query cap: the terms of       *)
(* PrepareIndexEntry, the rows WriteBatch writes for them and the          *)
(* candidates the first transaction of FindClosest gathers                 *)
(***************************************************************************)
TermGeometries == PrepareGeometries \ {EmptyPoint.Geometry}
TermCenters == 0..(8 * LeafWidth - 1)
TermRadii == {1, 2000, 9000}

InitTerms ==
    /\ objects = <<>>
    /\ index = <<>>
    /\ current = [id \in Ids |-> EmptyGeometry]
    /\ nWrites = 0
    /\ pending = NoPending
    /\ ingest = NoIngest
    /\ \E g \in TermGeometries, center \in TermCenters, radiusMeters \in TermRadii :
          lastOp = [op |-> "cap", ID |-> Id_a,
                    feature |-> [Geometry |-> g, Properties |-> NilProps],
                    center |-> center, radiusMeters |-> radiusMeters]

\* the candidates of the cap in the store that holds the entry alone
GatherAfterWrite(entry, r, center, angleRadius) ==
    [err |-> r.err,
     exteriorTerms |-> entry.ExteriorTerms,
     queryTerms |-> GetQueryTerms(Cap(center, angleRadius)),
     cands |-> GatherCandidates(r.index, center, angleRadius)]

IndexAndGather(entry, center, angleRadius) ==
    GatherAfterWrite(entry, WriteBatch([objects |-> <<>>, index |-> <<>>], <<entry>>),
                     center, angleRadius)

CallIndexAndGather ==
    /\ lastOp.op = "cap"
    /\ \E r \in {IndexAndGather(PrepareIndexEntry(lastOp.ID, lastOp.feature).entry,
                                lastOp.center, AngleFromMeters(lastOp.radiusMeters))} :
          lastOp' = [op |-> "gathered", ID |-> lastOp.ID, feature |-> lastOp.feature,
                     center |-> lastOp.center, radiusMeters |-> lastOp.radiusMeters,
                     err |-> r.err,
                     exteriorTerms |-> r.exteriorTerms, queryTerms |-> r.queryTerms,
                     interior |-> r.cands.interior, exterior |-> r.cands.exterior]
    /\ UNCHANGED <<objects, index, current, nWrites, pending, ingest>>

SpecTerms == InitTerms /\ [][CallIndexAndGather]_vars

\* a geometry meets the cap of a center and an angle: one of its points,
\* edges or, for a polygon, its inside is within the angle of the center
MeetsCap(g, center, angleRadius) ==
    CASE g.type \in {"Point", "LineString", "Polygon"} ->
            GeomDistance(g, center) <= angleRadius
      [] g.type = "MultiPoint" ->
            \E i \in 1..Len(g.parts) :
                DistanceFromSegment(center, g.parts[i][1], g.parts[i][1]) <= angleRadius
      [] g.type = "MultiLineString" ->
            \E i \in 1..Len(g.parts) : \E j \in 1..(Len(g.parts[i]) - 1) :
                DistanceFromSegment(center, g.parts[i][j], g.parts[i][j + 1])
                    <= angleRadius
      [] OTHER -> FALSE

\* C22: when an indexed feature meets the query cap, the query terms of the
\* cap hold one of the exterior terms of the feature, and the scan of the
\* ext: rows makes the feature a candidate
C22_TermSoundness ==
    (/\ lastOp.op = "gathered"
     /\ MeetsCap(lastOp.feature.Geometry, lastOp.center,
                 AngleFromMeters(lastOp.radiusMeters)))
        => /\ ~lastOp.err
           /\ lastOp.queryTerms \cap lastOp.exteriorTerms # {}
           /\ lastOp.ID \in Candidates

\* the polygon of several cells met by a cap of one position: its terms are
\* of coarser cells than those of the cap
C22_SmallCapInBigPolygon ==
    /\ lastOp.op = "gathered"
    /\ lastOp.feature.Geometry = BigPolygon.Geometry
    /\ lastOp.radiusMeters = 1
    /\ lastOp.ID \in Candidates

(***************************************************************************)
(* The index under writes of entries whose terms are prefixes of one       *)
(* another and whose ids hold the separator byte, and the cursor scan of   *)
(* FindClosest for one kind and one term                                   *)
(***************************************************************************)
\* tokens "1", "14" and the covering term "$1"
Term_1 == <<49>>
Term_14 == <<49, 52>>
Term_c1 == <<Marker, 49>>
ScanTerms == {Term_1, Term_14, Term_c1}

\* ids: "a", "4\x00a", which continues "1" to "14", and "\x00a"
ScanIdValues == {Id_a, <<52, NUL, 97>>, <<NUL, 97>>}

ScanEntries ==
    {[ID |-> id, Blob |-> <<encodingVersion>>, InteriorTerms |-> int,
      ExteriorTerms |-> ext] :
       id \in ScanIdValues,
       int \in {{}, {Term_14}},
       ext \in {{Term_1}, {Term_14}, {Term_1, Term_c1}}}

\* the rows an entry stands for: kind, term, id
RowsOf(entry) ==
    {<<Str_int, t, entry.ID>> : t \in entry.InteriorTerms}
    \cup {<<Str_ext, t, entry.ID>> : t \in entry.ExteriorTerms}

InitScan ==
    /\ objects = <<>>
    /\ index = <<>>
    /\ current = [id \in Ids |-> EmptyGeometry]
    /\ nWrites = 0
    /\ pending = NoPending
    /\ ingest = NoIngest
    /\ lastOp = [op |-> "none", rows |-> {}, kind |-> <<>>, term |-> <<>>, ids |-> {}]

\* WriteBatch of one entry; rows is the history of the rows written
CallWriteRows ==
    /\ nWrites < MaxWrites
    /\ lastOp.op # "scan"
    /\ \E entry \in ScanEntries :
        \E r \in {WriteBatch(db, <<entry>>)} :
            /\ nWrites' = nWrites + 1
            /\ objects' = r.objects
            /\ index' = r.index
            /\ lastOp' = [lastOp EXCEPT
                            !.op = "WriteBatch",
                            !.rows = IF r.err THEN @ ELSE @ \cup RowsOf(entry)]
            /\ UNCHANGED <<current, pending, ingest>>

\* the scan of FindClosest for one kind and one query term
CallScan ==
    /\ lastOp.op # "scan"
    /\ \E kind \in {Str_int, Str_ext}, term \in ScanTerms :
          lastOp' = [lastOp EXCEPT !.op = "scan", !.kind = kind, !.term = term,
                                   !.ids = ScanIds(index, kind, term)]
    /\ UNCHANGED <<objects, index, current, nWrites, pending, ingest>>

NextScan == CallWriteRows \/ CallScan

SpecScan == InitScan /\ [][NextScan]_vars

\* C23: the scan for a kind and a term yields exactly the ids written under
\* that kind and that term: none is missed, none written only under another
\* term, a longer one included, or under the other kind is yielded
C23_ScanExact ==
    lastOp.op = "scan" =>
        lastOp.ids = {row[3] : row \in {r \in lastOp.rows :
                                          r[1] = lastOp.kind /\ r[2] = lastOp.term}}

\* the scan for "1" in a store that holds "4\x00a" under "1" and "a" under
\* "14": the two keys differ only in the place of the separator
C23_ScanBesideLongerTerm ==
    /\ lastOp.op = "scan"
    /\ lastOp.kind = Str_ext
    /\ lastOp.term = Term_1
    /\ <<Str_ext, Term_1, <<52, NUL, 97>>>> \in lastOp.rows
    /\ <<Str_ext, Term_14, Id_a>> \in lastOp.rows
    /\ lastOp.ids = {<<52, NUL, 97>>}

(***************************************************************************)
(* encodeFullEntry, then decodeFullEntry of what it returned, then         *)
(* GetShape of every index of the factory                                  *)
(***************************************************************************)
\* the properties: none, "null", an object, and 130 bytes, whose length
\* takes two bytes as a varint
LongProps == [i \in 1..130 |-> 120]
CodecProps == {<<>>, Str_null, jsonMarshal(Props_t), LongProps}

\* the shape lists: those geomToS2 makes, no shape, a point vector of no
\* point, and the three kinds of shape in one list
CodecShapes ==
    {geomToS2(g).shapes : g \in TermGeometries}
    \cup {<<>>,
          <<PointVector(<<>>)>>,
          <<PointVector(<<1, 2>>), Polyline(<<3, LeafWidth + 1, 2 * LeafWidth>>)>>
            \o geomToS2(SmallPolygon.Geometry).shapes}

InitCodec ==
    /\ objects = <<>>
    /\ index = <<>>
    /\ current = [id \in Ids |-> EmptyGeometry]
    /\ nWrites = 0
    /\ pending = NoPending
    /\ ingest = NoIngest
    /\ \E props \in CodecProps, shapes \in CodecShapes :
          lastOp = [op |-> "entry", props |-> props, shapes |-> shapes]

\* what the decoder makes of the blob of an encoder that did not fail
DecodeEncoded(enc) ==
    IF enc.err THEN [DecodeFail EXCEPT !.err = FALSE] ELSE decodeFullEntry(enc.blob)

CallRoundTrip ==
    /\ lastOp.op = "entry"
    /\ \E enc \in {encodeFullEntry(lastOp.shapes, lastOp.props)} :
       \E dec \in {DecodeEncoded(enc)} :
          lastOp' = [op |-> "roundTrip", props |-> lastOp.props,
                     shapes |-> lastOp.shapes, encErr |-> enc.err,
                     err |-> dec.err, panic |-> dec.panic,
                     decProps |-> dec.props,
                     len |-> FactoryLen(dec.factory),
                     decShapes |-> AllShapes(dec.factory)]
    /\ UNCHANGED <<objects, index, current, nWrites, pending, ingest>>

SpecCodec == InitCodec /\ [][CallRoundTrip]_vars

\* C24: decodeFullEntry of the blob encodeFullEntry made of properties and
\* supported shapes succeeds, returns the same properties and a factory of
\* as many shapes, each not nil, of the kind and the vertex count of the
\* shape encoded
C24_CodecRoundTrip ==
    lastOp.op = "roundTrip" =>
        /\ ~lastOp.encErr
        /\ ~lastOp.err
        /\ ~lastOp.panic
        /\ lastOp.decProps = lastOp.props
        /\ lastOp.len = Len(lastOp.shapes)
        /\ Len(lastOp.decShapes) = Len(lastOp.shapes)
        /\ \A i \in 1..Len(lastOp.shapes) :
              /\ lastOp.decShapes[i].kind = lastOp.shapes[i].kind
              /\ Len(Vertices(lastOp.decShapes[i])) = Len(Vertices(lastOp.shapes[i]))

\* three shapes of the three kinds and properties of 130 bytes came back
C24_ThreeKindsLongProps ==
    /\ lastOp.op = "roundTrip"
    /\ lastOp.props = LongProps
    /\ lastOp.len = 3
    /\ {lastOp.decShapes[i].kind : i \in 1..3} = {"PointVector", "Polyline", "Polygon"}

RECURSIVE Concat(_)
Concat(batches) ==
    IF batches = <<>> THEN <<>> ELSE Head(batches) \o Concat(Tail(batches))

\* C25: every entry a worker sent on resultChan is passed to WriteBatch
\* once, in the order sent, before writeDone is closed; a batch holds at
\* most batchSize entries and is never empty
C25_EveryEntryWrittenOnce ==
    ingest.main # "none" =>
        /\ \A i \in 1..Len(ingest.written) :
              /\ ingest.written[i] # <<>>
              /\ Len(ingest.written[i]) <= ingest.batchSize
        /\ Concat(ingest.written) \o ingest.batch \o ingest.resultChan = ingest.sent
        /\ ingest.writeDone => Concat(ingest.written) = ingest.sent

\* three entries were written with a batch size of two: a full batch, then
\* the final flush of one entry
C25_FullBatchAndFinalFlush ==
    /\ ingest.main = "done"
    /\ ingest.batchSize = 2
    /\ Len(ingest.sent) = 3
    /\ Len(ingest.written) = 2
    /\ Len(ingest.written[1]) = 2
    /\ Len(ingest.written[2]) = 1

\* the jobs main has sent that the writer has not received and no worker
\* has given up
InFlight == ingest.emitted - ingest.dropped - (Len(ingest.sent) - Len(ingest.resultChan))

\* C26: jobChan never holds more than 2*W jobs, resultChan never more than B
\* entries, at most 3*W + B features are between the decoder and the writer;
\* main does not pass its send while jobChan is full, a worker does not pass
\* its send while resultChan is full
C26_Backpressure ==
    /\ [](ingest.main # "none" =>
            /\ Len(ingest.jobChan) <= 2 * ingest.workers
            /\ Len(ingest.resultChan) <= ingest.batchSize
            /\ InFlight <= 3 * ingest.workers + ingest.batchSize)
    /\ [][(/\ ingest.main = "send"
           /\ Len(ingest.jobChan) = 2 * ingest.workers)
             => ingest'.main = "send"]_vars
    /\ [][\A w \in Workers :
            (/\ ingest.wpc[w] = "send"
             /\ ~ingest.resultClosed
             /\ Len(ingest.resultChan) = ingest.batchSize)
               => ingest'.wpc[w] = "send"]_vars

\* main waits at its send with jobChan full while a worker waits at its send
\* with resultChan full
C26_BothChannelsFull ==
    /\ ingest.main = "send"
    /\ Len(ingest.jobChan) = 2 * ingest.workers
    /\ Len(ingest.resultChan) = ingest.batchSize
    /\ \E w \in Workers : ingest.wpc[w] = "send"

(***************************************************************************)
(* geomToS2 of a geometry, then shapesToGeom of the shapes it returned     *)
(***************************************************************************)
\* the geometries converted: those of SpecPrepare, an empty point,
\* multipoints of no, one and three points, multilinestrings of no and one
\* line, a polygon with a hole, multipolygons, and a type without a case
ConvertGeometries ==
    TermGeometries
    \cup {Geom("Point", <<<<>>>>),
          Geom("MultiPoint", <<>>),
          Geom("MultiPoint", <<<<3>>>>),
          Geom("MultiPoint", <<<<1>>, <<LeafWidth>>, <<3 * LeafWidth>>>>),
          Geom("MultiLineString", <<>>),
          Geom("MultiLineString", <<<<1, LeafWidth + 2>>>>),
          Geom("Polygon", <<<<0, 6 * LeafWidth, 0>>, <<LeafWidth, 2 * LeafWidth, LeafWidth>>>>),
          Geom("MultiPolygon", <<>>),
          Geom("MultiPolygon", <<<<<<0, LeafWidth, 0>>>>>>),
          Geom("MultiPolygon", <<<<<<0, LeafWidth, 0>>>>,
                                 <<<<3 * LeafWidth, 5 * LeafWidth, 3 * LeafWidth>>>>>>),
          Collection.Geometry}

InitConvert ==
    /\ objects = <<>>
    /\ index = <<>>
    /\ current = [id \in Ids |-> EmptyGeometry]
    /\ nWrites = 0
    /\ pending = NoPending
    /\ ingest = NoIngest
    /\ \E g \in ConvertGeometries :
          lastOp = [op |-> "geometry", g |-> g, err |-> FALSE, shapes |-> <<>>,
                    regions |-> <<>>, geometry |-> EmptyGeometry]

CallGeomToS2 ==
    /\ lastOp.op = "geometry"
    /\ \E r \in {geomToS2(lastOp.g)} :
          lastOp' = [lastOp EXCEPT !.op = "geomToS2", !.err = r.err,
                                   !.shapes = r.shapes, !.regions = r.regions]
    /\ UNCHANGED <<objects, index, current, nWrites, pending, ingest>>

\* shapesToGeom of the shapes a conversion without error returned
CallShapesToGeom ==
    /\ lastOp.op = "geomToS2"
    /\ ~lastOp.err
    /\ lastOp' = [lastOp EXCEPT !.op = "shapesToGeom",
                                !.geometry = shapesToGeom(lastOp.shapes)]
    /\ UNCHANGED <<objects, index, current, nWrites, pending, ingest>>

NextConvert == CallGeomToS2 \/ CallShapesToGeom

SpecConvert == InitConvert /\ [][NextConvert]_vars

\* C27: geomToS2 returns one shape and one region for a point, a line
\* string, a polygon and a multipolygon, one shape and n regions for a
\* multipoint of n points, n shapes and n regions for a multilinestring of
\* n lines, and an error without shapes and regions for any other type
C27_ShapesAndRegions ==
    lastOp.op = "geomToS2" =>
        CASE lastOp.g.type \in {"Point", "LineString", "Polygon", "MultiPolygon"} ->
                /\ ~lastOp.err
                /\ Len(lastOp.shapes) = 1
                /\ Len(lastOp.regions) = 1
          [] lastOp.g.type = "MultiPoint" ->
                /\ ~lastOp.err
                /\ Len(lastOp.shapes) = 1
                /\ Len(lastOp.regions) = Len(lastOp.g.parts)
          [] lastOp.g.type = "MultiLineString" ->
                /\ ~lastOp.err
                /\ Len(lastOp.shapes) = Len(lastOp.g.parts)
                /\ Len(lastOp.regions) = Len(lastOp.g.parts)
          [] OTHER ->
                /\ lastOp.err
                /\ lastOp.shapes = <<>>
                /\ lastOp.regions = <<>>

\* a multipoint of three points was converted: one shape, three regions
C27_MultiPointOfThree ==
    /\ lastOp.op = "geomToS2"
    /\ lastOp.g.type = "MultiPoint"
    /\ Len(lastOp.g.parts) = 3
    /\ Len(lastOp.shapes) = 1
    /\ Len(lastOp.regions) = 3

\* C30: for a supported geometry that is not empty and no multipolygon, the
\* geometry shapesToGeom makes of the shapes of geomToS2 has the type of the
\* geometry converted, a multipoint of one point and a multilinestring of
\* one line included
C30_TypePreserved ==
    (/\ lastOp.op = "shapesToGeom"
     /\ lastOp.g.type \in {"Point", "LineString", "Polygon", "MultiPoint",
                           "MultiLineString"}
     /\ ~GeomIsEmpty(lastOp.g))
        => lastOp.geometry.type = lastOp.g.type

\* C29: every id of an index row is a key of the objects bucket, whatever
\* Put and WriteBatch calls, failed ones included, came before, so a
\* candidate of a query is never missing from the objects bucket; and no
\* call removes a key of either bucket
C29_ReferentialIntegrity ==
    /\ [](\A j \in 1..Len(index) : IdOfKey(index[j].k) \in BucketKeys(objects))
    /\ [](Returned => \A id \in Candidates : BucketGet(objects, id).found)
    /\ [][/\ BucketKeys(objects) \subseteq BucketKeys(objects')
          /\ BucketKeys(index) \subseteq BucketKeys(index')]_vars

\* a call failed on a store that a call before it had written
C29_FailedCallOnWrittenStore ==
    /\ lastOp.op \in {"Put", "WriteBatch"}
    /\ lastOp.err
    /\ nWrites >= 2
    /\ objects # <<>>
    /\ \A j \in 1..Len(index) : IdOfKey(index[j].k) \in BucketKeys(objects)

(***************************************************************************)
(* ingest-simple: json.Unmarshal of the whole file into a feature          *)
(* collection, then Put of every feature in the order of the array         *)
(***************************************************************************)
\* the loop over fc.Features: Put of each feature under its id, an error of
\* Put logged
RECURSIVE SimplePuts(_, _)
SimplePutNext(r, rest) == SimplePuts([objects |-> r.objects, index |-> r.index], rest)

SimplePuts(store, feats) ==
    IF feats = <<>> THEN store
    ELSE SimplePutNext(Put(store, Head(feats).ID, Head(feats)), Tail(feats))

\* the store ingest-simple leaves from an empty one: json.Unmarshal reads
\* the features member of the object wherever it stands, and an element
\* that is no feature ends the tool in log.Fatalf before the first Put
IngestSimple(source) ==
    IF \E i \in 1..Len(source) : ~source[i].valid
    THEN [objects |-> <<>>, index |-> <<>>]
    ELSE SimplePuts([objects |-> <<>>, index |-> <<>>], source)

\* the features of a collection all carry distinct explicit ids that are
\* not empty
DistinctExplicitIds(source) ==
    /\ \A i \in 1..Len(source) :
          source[i].kind = "feature" /\ source[i].valid /\ source[i].ID # <<>>
    /\ \A i, j \in 1..Len(source) : source[i].ID = source[j].ID => i = j

\* C28: for a feature collection whose features all carry distinct explicit
\* ids that are not empty, the object and index buckets after the parallel
\* tool has finished equal those ingest-simple leaves for the same file,
\* for every number of workers, batch size and schedule
C28_ParallelEqualsSimple ==
    Finished /\ DistinctExplicitIds(ingest.source)
        => db = IngestSimple(ingest.source)
====
